---- MODULE Spec2Model ----
(***************************************************************************)
(* Model of the robot-agent tool server: the MockBridge state machine      *)
(* (llm_tool_server/bridge_ros2.py), the zone resolver and the /tool-call  *)
(* dispatcher with the /config upserts (llm_tool_server/main.py).          *)
(*                                                                         *)
(* Representation.                                                         *)
(*  - A Python str is the sequence of its characters, each a string, so    *)
(*    that the regular expressions and canonicalize_identifier work on     *)
(*    characters.                                                          *)
(*  - An Optional value is <<>> (None) or <<v>>.                           *)
(*  - A float speed scale is an integer number of thousandths.             *)
(*  - A pose is a natural number naming a coordinate triple; 0 names the   *)
(*    empty mapping {}.                                                    *)
(*  - A Python dict whose order matters is [keys |-> sequence of keys in   *)
(*    insertion order, val |-> function on those keys].                    *)
(***************************************************************************)
EXTENDS Integers, Sequences, FiniteSets, TLC

VARIABLES
    BRIDGE,     \* the process-wide MockBridge instance (main.py:100)
    SETTINGS,   \* the process-wide settings mapping (main.py:86)
    req,        \* the name of the request handled last
    result,     \* the response to that request
    calls,      \* the bridge operations invoked while handling it, in order
    SETTINGS_FILE, \* the contents of settings.yaml (main.py:85)
    armed,      \* TRUE iff a pick succeeded with no successful place or stop since
    task        \* the handler the event loop has started and not finished

vars == <<BRIDGE, SETTINGS, req, result, calls, SETTINGS_FILE, armed, task>>

---------------------------------------------------------------------------
(* Optional values *)

None == <<>>

Some(v) == <<v>>

IsNone(o) == o = <<>>

Get(o) == o[1]

---------------------------------------------------------------------------
(* Characters and strings.  A character up to U+00FF is the one-character  *)
(* string holding it; a character above U+00FF is the string "U+" followed *)
(* by its code point in hexadecimal, at least four digits in upper case.   *)

\* A-Z: with U+0130 and U+212A, the characters outside a-z0-9 whose
\* str.lower() has a character in a-z0-9
AsciiUpperChars == <<"A","B","C","D","E","F","G","H","I","J","K","L","M",
                     "N","O","P","Q","R","S","T","U","V","W","X","Y","Z">>

\* the class a-z
AsciiLowerChars == <<"a","b","c","d","e","f","g","h","i","j","k","l","m",
                     "n","o","p","q","r","s","t","u","v","w","x","y","z">>

\* the class 0-9
DigitChars == <<"0","1","2","3","4","5","6","7","8","9">>

\* the characters \s matches in a str pattern
SpaceChars ==
    {"\t", "\n", "", "\f", "\r", "", "", "", "", " ", "", " ",
     "U+1680", "U+2000", "U+2001", "U+2002", "U+2003", "U+2004", "U+2005",
     "U+2006", "U+2007", "U+2008", "U+2009", "U+200A", "U+2028", "U+2029",
     "U+202F", "U+205F", "U+3000"}

\* the characters \d matches in a str pattern: every Unicode decimal digit,
\* one row per script, each row in the order of the values 0 to 9
DecimalDigits ==
    << DigitChars,
       <<"U+0660", "U+0661", "U+0662", "U+0663", "U+0664", "U+0665", "U+0666", "U+0667", "U+0668", "U+0669">>,
       <<"U+06F0", "U+06F1", "U+06F2", "U+06F3", "U+06F4", "U+06F5", "U+06F6", "U+06F7", "U+06F8", "U+06F9">>,
       <<"U+07C0", "U+07C1", "U+07C2", "U+07C3", "U+07C4", "U+07C5", "U+07C6", "U+07C7", "U+07C8", "U+07C9">>,
       <<"U+0966", "U+0967", "U+0968", "U+0969", "U+096A", "U+096B", "U+096C", "U+096D", "U+096E", "U+096F">>,
       <<"U+09E6", "U+09E7", "U+09E8", "U+09E9", "U+09EA", "U+09EB", "U+09EC", "U+09ED", "U+09EE", "U+09EF">>,
       <<"U+0A66", "U+0A67", "U+0A68", "U+0A69", "U+0A6A", "U+0A6B", "U+0A6C", "U+0A6D", "U+0A6E", "U+0A6F">>,
       <<"U+0AE6", "U+0AE7", "U+0AE8", "U+0AE9", "U+0AEA", "U+0AEB", "U+0AEC", "U+0AED", "U+0AEE", "U+0AEF">>,
       <<"U+0B66", "U+0B67", "U+0B68", "U+0B69", "U+0B6A", "U+0B6B", "U+0B6C", "U+0B6D", "U+0B6E", "U+0B6F">>,
       <<"U+0BE6", "U+0BE7", "U+0BE8", "U+0BE9", "U+0BEA", "U+0BEB", "U+0BEC", "U+0BED", "U+0BEE", "U+0BEF">>,
       <<"U+0C66", "U+0C67", "U+0C68", "U+0C69", "U+0C6A", "U+0C6B", "U+0C6C", "U+0C6D", "U+0C6E", "U+0C6F">>,
       <<"U+0CE6", "U+0CE7", "U+0CE8", "U+0CE9", "U+0CEA", "U+0CEB", "U+0CEC", "U+0CED", "U+0CEE", "U+0CEF">>,
       <<"U+0D66", "U+0D67", "U+0D68", "U+0D69", "U+0D6A", "U+0D6B", "U+0D6C", "U+0D6D", "U+0D6E", "U+0D6F">>,
       <<"U+0DE6", "U+0DE7", "U+0DE8", "U+0DE9", "U+0DEA", "U+0DEB", "U+0DEC", "U+0DED", "U+0DEE", "U+0DEF">>,
       <<"U+0E50", "U+0E51", "U+0E52", "U+0E53", "U+0E54", "U+0E55", "U+0E56", "U+0E57", "U+0E58", "U+0E59">>,
       <<"U+0ED0", "U+0ED1", "U+0ED2", "U+0ED3", "U+0ED4", "U+0ED5", "U+0ED6", "U+0ED7", "U+0ED8", "U+0ED9">>,
       <<"U+0F20", "U+0F21", "U+0F22", "U+0F23", "U+0F24", "U+0F25", "U+0F26", "U+0F27", "U+0F28", "U+0F29">>,
       <<"U+1040", "U+1041", "U+1042", "U+1043", "U+1044", "U+1045", "U+1046", "U+1047", "U+1048", "U+1049">>,
       <<"U+1090", "U+1091", "U+1092", "U+1093", "U+1094", "U+1095", "U+1096", "U+1097", "U+1098", "U+1099">>,
       <<"U+17E0", "U+17E1", "U+17E2", "U+17E3", "U+17E4", "U+17E5", "U+17E6", "U+17E7", "U+17E8", "U+17E9">>,
       <<"U+1810", "U+1811", "U+1812", "U+1813", "U+1814", "U+1815", "U+1816", "U+1817", "U+1818", "U+1819">>,
       <<"U+1946", "U+1947", "U+1948", "U+1949", "U+194A", "U+194B", "U+194C", "U+194D", "U+194E", "U+194F">>,
       <<"U+19D0", "U+19D1", "U+19D2", "U+19D3", "U+19D4", "U+19D5", "U+19D6", "U+19D7", "U+19D8", "U+19D9">>,
       <<"U+1A80", "U+1A81", "U+1A82", "U+1A83", "U+1A84", "U+1A85", "U+1A86", "U+1A87", "U+1A88", "U+1A89">>,
       <<"U+1A90", "U+1A91", "U+1A92", "U+1A93", "U+1A94", "U+1A95", "U+1A96", "U+1A97", "U+1A98", "U+1A99">>,
       <<"U+1B50", "U+1B51", "U+1B52", "U+1B53", "U+1B54", "U+1B55", "U+1B56", "U+1B57", "U+1B58", "U+1B59">>,
       <<"U+1BB0", "U+1BB1", "U+1BB2", "U+1BB3", "U+1BB4", "U+1BB5", "U+1BB6", "U+1BB7", "U+1BB8", "U+1BB9">>,
       <<"U+1C40", "U+1C41", "U+1C42", "U+1C43", "U+1C44", "U+1C45", "U+1C46", "U+1C47", "U+1C48", "U+1C49">>,
       <<"U+1C50", "U+1C51", "U+1C52", "U+1C53", "U+1C54", "U+1C55", "U+1C56", "U+1C57", "U+1C58", "U+1C59">>,
       <<"U+A620", "U+A621", "U+A622", "U+A623", "U+A624", "U+A625", "U+A626", "U+A627", "U+A628", "U+A629">>,
       <<"U+A8D0", "U+A8D1", "U+A8D2", "U+A8D3", "U+A8D4", "U+A8D5", "U+A8D6", "U+A8D7", "U+A8D8", "U+A8D9">>,
       <<"U+A900", "U+A901", "U+A902", "U+A903", "U+A904", "U+A905", "U+A906", "U+A907", "U+A908", "U+A909">>,
       <<"U+A9D0", "U+A9D1", "U+A9D2", "U+A9D3", "U+A9D4", "U+A9D5", "U+A9D6", "U+A9D7", "U+A9D8", "U+A9D9">>,
       <<"U+A9F0", "U+A9F1", "U+A9F2", "U+A9F3", "U+A9F4", "U+A9F5", "U+A9F6", "U+A9F7", "U+A9F8", "U+A9F9">>,
       <<"U+AA50", "U+AA51", "U+AA52", "U+AA53", "U+AA54", "U+AA55", "U+AA56", "U+AA57", "U+AA58", "U+AA59">>,
       <<"U+ABF0", "U+ABF1", "U+ABF2", "U+ABF3", "U+ABF4", "U+ABF5", "U+ABF6", "U+ABF7", "U+ABF8", "U+ABF9">>,
       <<"U+FF10", "U+FF11", "U+FF12", "U+FF13", "U+FF14", "U+FF15", "U+FF16", "U+FF17", "U+FF18", "U+FF19">>,
       <<"U+104A0", "U+104A1", "U+104A2", "U+104A3", "U+104A4", "U+104A5", "U+104A6", "U+104A7", "U+104A8", "U+104A9">>,
       <<"U+10D30", "U+10D31", "U+10D32", "U+10D33", "U+10D34", "U+10D35", "U+10D36", "U+10D37", "U+10D38", "U+10D39">>,
       <<"U+11066", "U+11067", "U+11068", "U+11069", "U+1106A", "U+1106B", "U+1106C", "U+1106D", "U+1106E", "U+1106F">>,
       <<"U+110F0", "U+110F1", "U+110F2", "U+110F3", "U+110F4", "U+110F5", "U+110F6", "U+110F7", "U+110F8", "U+110F9">>,
       <<"U+11136", "U+11137", "U+11138", "U+11139", "U+1113A", "U+1113B", "U+1113C", "U+1113D", "U+1113E", "U+1113F">>,
       <<"U+111D0", "U+111D1", "U+111D2", "U+111D3", "U+111D4", "U+111D5", "U+111D6", "U+111D7", "U+111D8", "U+111D9">>,
       <<"U+112F0", "U+112F1", "U+112F2", "U+112F3", "U+112F4", "U+112F5", "U+112F6", "U+112F7", "U+112F8", "U+112F9">>,
       <<"U+11450", "U+11451", "U+11452", "U+11453", "U+11454", "U+11455", "U+11456", "U+11457", "U+11458", "U+11459">>,
       <<"U+114D0", "U+114D1", "U+114D2", "U+114D3", "U+114D4", "U+114D5", "U+114D6", "U+114D7", "U+114D8", "U+114D9">>,
       <<"U+11650", "U+11651", "U+11652", "U+11653", "U+11654", "U+11655", "U+11656", "U+11657", "U+11658", "U+11659">>,
       <<"U+116C0", "U+116C1", "U+116C2", "U+116C3", "U+116C4", "U+116C5", "U+116C6", "U+116C7", "U+116C8", "U+116C9">>,
       <<"U+11730", "U+11731", "U+11732", "U+11733", "U+11734", "U+11735", "U+11736", "U+11737", "U+11738", "U+11739">>,
       <<"U+118E0", "U+118E1", "U+118E2", "U+118E3", "U+118E4", "U+118E5", "U+118E6", "U+118E7", "U+118E8", "U+118E9">>,
       <<"U+11950", "U+11951", "U+11952", "U+11953", "U+11954", "U+11955", "U+11956", "U+11957", "U+11958", "U+11959">>,
       <<"U+11C50", "U+11C51", "U+11C52", "U+11C53", "U+11C54", "U+11C55", "U+11C56", "U+11C57", "U+11C58", "U+11C59">>,
       <<"U+11D50", "U+11D51", "U+11D52", "U+11D53", "U+11D54", "U+11D55", "U+11D56", "U+11D57", "U+11D58", "U+11D59">>,
       <<"U+11DA0", "U+11DA1", "U+11DA2", "U+11DA3", "U+11DA4", "U+11DA5", "U+11DA6", "U+11DA7", "U+11DA8", "U+11DA9">>,
       <<"U+16A60", "U+16A61", "U+16A62", "U+16A63", "U+16A64", "U+16A65", "U+16A66", "U+16A67", "U+16A68", "U+16A69">>,
       <<"U+16AC0", "U+16AC1", "U+16AC2", "U+16AC3", "U+16AC4", "U+16AC5", "U+16AC6", "U+16AC7", "U+16AC8", "U+16AC9">>,
       <<"U+16B50", "U+16B51", "U+16B52", "U+16B53", "U+16B54", "U+16B55", "U+16B56", "U+16B57", "U+16B58", "U+16B59">>,
       <<"U+1D7CE", "U+1D7CF", "U+1D7D0", "U+1D7D1", "U+1D7D2", "U+1D7D3", "U+1D7D4", "U+1D7D5", "U+1D7D6", "U+1D7D7">>,
       <<"U+1D7D8", "U+1D7D9", "U+1D7DA", "U+1D7DB", "U+1D7DC", "U+1D7DD", "U+1D7DE", "U+1D7DF", "U+1D7E0", "U+1D7E1">>,
       <<"U+1D7E2", "U+1D7E3", "U+1D7E4", "U+1D7E5", "U+1D7E6", "U+1D7E7", "U+1D7E8", "U+1D7E9", "U+1D7EA", "U+1D7EB">>,
       <<"U+1D7EC", "U+1D7ED", "U+1D7EE", "U+1D7EF", "U+1D7F0", "U+1D7F1", "U+1D7F2", "U+1D7F3", "U+1D7F4", "U+1D7F5">>,
       <<"U+1D7F6", "U+1D7F7", "U+1D7F8", "U+1D7F9", "U+1D7FA", "U+1D7FB", "U+1D7FC", "U+1D7FD", "U+1D7FE", "U+1D7FF">>,
       <<"U+1E140", "U+1E141", "U+1E142", "U+1E143", "U+1E144", "U+1E145", "U+1E146", "U+1E147", "U+1E148", "U+1E149">>,
       <<"U+1E2F0", "U+1E2F1", "U+1E2F2", "U+1E2F3", "U+1E2F4", "U+1E2F5", "U+1E2F6", "U+1E2F7", "U+1E2F8", "U+1E2F9">>,
       <<"U+1E950", "U+1E951", "U+1E952", "U+1E953", "U+1E954", "U+1E955", "U+1E956", "U+1E957", "U+1E958", "U+1E959">>,
       <<"U+1FBF0", "U+1FBF1", "U+1FBF2", "U+1FBF3", "U+1FBF4", "U+1FBF5", "U+1FBF6", "U+1FBF7", "U+1FBF8", "U+1FBF9">> >>

DecimalChars ==
    {DecimalDigits[r][d] : r \in 1..Len(DecimalDigits), d \in 1..10}

AsciiUpperSet == {AsciiUpperChars[i] : i \in 1..26}

AsciiLowerSet == {AsciiLowerChars[i] : i \in 1..26}

DigitSet == {DigitChars[i] : i \in 1..10}

IsAsciiUpper(c) == c \in AsciiUpperSet

IsLower(c) == c \in AsciiLowerSet

IsDigit(c) == c \in DigitSet

IsSpace(c) == c \in SpaceChars

IsDecimal(c) == c \in DecimalChars

\* str.lower() of a character of A-Z
AsciiLower(c) == AsciiLowerChars[CHOOSE i \in 1..26 : AsciiUpperChars[i] = c]

\* the character of c.lower() that the class a-z0-9 holds, "" when there is
\* none: a character of the class is its own lower case, A-Z give a-z,
\* U+0130 gives i (followed by U+0307) and U+212A, the Kelvin sign, gives k;
\* the lower case of every other character lies outside the class
LowerInClass(c) ==
    IF IsLower(c) \/ IsDigit(c) THEN c
    ELSE IF IsAsciiUpper(c) THEN AsciiLower(c)
    ELSE IF c = "U+0130" THEN "i"
    ELSE IF c = "U+212A" THEN "k"
    ELSE ""

\* the value of one decimal digit
DigitValue(c) ==
    (CHOOSE d \in 1..10 : \E r \in 1..Len(DecimalDigits) : DecimalDigits[r][d] = c) - 1

\* the index of the first character of s outside the set C, Len(s) + 1 when
\* every character is in C
FirstNot(s, C) ==
    IF Len(s) > 0 /\ s[1] \notin C THEN 1
    ELSE IF s \in Seq(C) THEN Len(s) + 1
    ELSE CHOOSE i \in 1..Len(s) : s[i] \notin C /\ SubSeq(s, 1, i - 1) \in Seq(C)

\* the index of the last character of s outside the set C, 0 when every
\* character is in C
LastNot(s, C) ==
    IF Len(s) > 0 /\ s[Len(s)] \notin C THEN Len(s)
    ELSE IF s \in Seq(C) THEN 0
    ELSE CHOOSE i \in 1..Len(s) : s[i] \notin C /\ SubSeq(s, i + 1, Len(s)) \in Seq(C)

\* the outcome of a call that raises ValueError instead of returning a value
ValueError == <<"raise", "ValueError">>

\* the integers of the model stop short of 2^31: a number of IntCap or more
\* is held as IntCap
IntCap == 100000000

\* 10 * n + d, held as IntCap from IntCap on
Times10Plus(n, d) ==
    IF n >= IntCap THEN IntCap
    ELSE IF 10 * n + d >= IntCap THEN IntCap
    ELSE 10 * n + d

\* the decimal digits of value 0
ZeroDigits == {DecimalDigits[r][1] : r \in 1..Len(DecimalDigits)}

\* the number a string of decimal digits denotes, digit by digit
RECURSIVE DigitsValue(_)
DigitsValue(s) ==
    IF Len(s) = 0 THEN 0
    ELSE Times10Plus(DigitsValue(SubSeq(s, 1, Len(s) - 1)), DigitValue(s[Len(s)]))

\* the number a string of decimal digits denotes, IntCap when it is IntCap
\* or more: leading zeros count for nothing, and a number of ten digits or
\* more is above IntCap
NumberOfDigits(s) ==
    LET t == SubSeq(s, FirstNot(s, ZeroDigits), Len(s))
    IN  IF Len(t) > 9 THEN IntCap ELSE DigitsValue(t)

\* the most digits int() converts, sys.int_info.default_max_str_digits:
\* every digit of the string counts, leading zeros too
MaxStrDigits == 4300

\* int() of a non-empty string of decimal digits: ValueError when the string
\* has more than MaxStrDigits digits, else Some(the number)
IntOfDigits(s) ==
    IF Len(s) > MaxStrDigits THEN ValueError ELSE <<NumberOfDigits(s)>>

\* s without its leading whitespace
LStrip(s) == SubSeq(s, FirstNot(s, SpaceChars), Len(s))

\* str.strip(): s without its leading and trailing whitespace
Strip(s) == SubSeq(s, FirstNot(s, SpaceChars), LastNot(s, SpaceChars))

\* the longest prefix of s made of decimal digits
DigitPrefix(s) == SubSeq(s, 1, FirstNot(s, DecimalChars) - 1)

Drop(s, n) == SubSeq(s, n + 1, Len(s))

ZoneWord == <<"z","o","n","e">>

\* c matches the pattern letter l under re.IGNORECASE; for the letters of
\* zone the only matches are the letter and its capital
MatchesIgnoreCase(c, l) == c = l \/ (IsAsciiUpper(c) /\ AsciiLower(c) = l)

HasZoneWord(s) ==
    Len(s) >= 4 /\ \A i \in 1..4 : MatchesIgnoreCase(s[i], ZoneWord[i])

\* canonicalize_identifier lower-casing only, punctuation and spaces kept
canonicalize_identifier_keeps_punctuation(value) ==
    [i \in 1..Len(value) |->
        IF IsAsciiUpper(value[i]) THEN AsciiLower(value[i]) ELSE value[i]]

\* canonicalize_identifier without the lower-casing: upper-case letters are
\* deleted with the punctuation
canonicalize_identifier_no_lower(value) ==
    SelectSeq(value, LAMBDA c : IsLower(c) \/ IsDigit(c))

\* canonicalize_identifier: lower-case the value, then delete every character
\* that is not one of a-z, 0-9
canonicalize_identifier(value) ==
    SelectSeq([i \in 1..Len(value) |-> LowerInClass(value[i])],
              LAMBDA c : c # "")

\* the end of the pattern: b starts with the digits d, group 1 of the
\* pattern, which must be one or more and be followed by whitespace only
OrdinalDigits(b, d) ==
    IF Len(d) > 0 /\ Len(LStrip(Drop(b, Len(d)))) = 0 THEN Some(d) ELSE None

\* the pattern after the optional group: the digits are as many as follow
OrdinalAfterZone(b) == OrdinalDigits(b, DigitPrefix(b))

\* the pattern after the leading whitespace: the optional group [the word
\* zone, whitespace] is taken exactly when the word zone follows (a digit is
\* never a z, so the choice never backtracks)
OrdinalAfterSpace(a) ==
    OrdinalAfterZone(IF HasZoneWord(a) THEN LStrip(Drop(a, 4)) ELSE a)

\* The full match of resolve_zone_key's pattern, case-insensitive: whitespace,
\* an optional group [the word zone, whitespace], one or more digits (group 1),
\* whitespace.  None when there is no match, else Some(group 1).
OrdinalMatch(name) == OrdinalAfterSpace(LStrip(name))

---------------------------------------------------------------------------
(* Ordered dictionaries *)

EmptyDict == [keys |-> <<>>, val |-> <<>>]

InSeq(s, x) == \E i \in 1..Len(s) : s[i] = x

HasKey(d, k) == InSeq(d.keys, k)

\* d[k] = v: a new key goes last, an existing key keeps its place
DictSet(d, k, v) ==
    [keys |-> IF HasKey(d, k) THEN d.keys ELSE Append(d.keys, k),
     val  |-> [x \in {d.keys[i] : i \in 1..Len(d.keys)} \cup {k} |->
                  IF x = k THEN v ELSE d.val[x]]]

\* the first key of ks whose canonical form is canon, or None
RECURSIVE FirstCanonical(_, _)
FirstCanonical(ks, canon) ==
    IF Len(ks) = 0 THEN None
    ELSE IF canonicalize_identifier(ks[1]) = canon THEN Some(ks[1])
    ELSE FirstCanonical(Tail(ks), canon)

\* resolve_zone_key from idx = int(m.group(1)) on, idx being Some(0) when
\* the pattern did not match: the idx-th key when the pattern matched and
\* idx is in range, else the first key with the canonical form of name;
\* a ValueError raised by int() leaves resolve_zone_key
resolve_by_index(keys, name, m, idx) ==
    IF idx = ValueError THEN ValueError
    ELSE IF ~IsNone(m) /\ 1 <= Get(idx) /\ Get(idx) <= Len(keys)
    THEN Some(keys[Get(idx)])
    ELSE FirstCanonical(keys, canonicalize_identifier(name))

\* resolve_zone_key from the match m of the pattern on
resolve_match(keys, name, m) ==
    resolve_by_index(keys, name, m,
                     IF IsNone(m) THEN Some(0) ELSE IntOfDigits(Get(m)))

(* resolve_zone_key(settings, name): None, Some(zone key), or ValueError *)
resolve_zone_key(settings, name) ==
    resolve_match(settings.zones.keys, name, OrdinalMatch(name))

---------------------------------------------------------------------------
(* String literals of the source, and number formatting *)

STR_None == <<"N","o","n","e">>

STR_idle == <<"i","d","l","e">>

STR_stop == <<"s","t","o","p">>

STR_pose == <<"p","o","s","e">>

STR_pick_ == <<"p","i","c","k",":">>

STR_place_ == <<"p","l","a","c","e",":">>

STR_set_speed_ == <<"s","e","t","_","s","p","e","e","d",":">>

\* str() of a natural number
RECURSIVE StrOfNat(_)
StrOfNat(n) ==
    IF n < 10 THEN <<DigitChars[n + 1]>>
    ELSE StrOfNat(n \div 10) \o <<DigitChars[(n % 10) + 1]>>

\* the number of bits of the natural number n
RECURSIVE BitLength(_)
BitLength(n) == IF n = 0 THEN 0 ELSE 1 + BitLength(n \div 2)

\* the significant bits of a Python float
FloatBits == 53

\* The rounding of r/1000 + (the bits already produced) to a float, r < 1000
\* being what is left of the fraction: n bits are still to be produced,
\* started tells whether the first 1 bit has been produced (the bits before
\* it do not count), last is the last bit produced.  -1 when the float is
\* below the number, 0 when it is the number, 1 when it is above: round to
\* nearest, a tie to the even float.
RECURSIVE RoundedFraction(_, _, _, _)
RoundedFraction(r, n, started, last) ==
    IF r = 0 THEN 0
    ELSE IF n = 0
    THEN IF 2 * r > 1000 \/ (2 * r = 1000 /\ last = 1) THEN 1 ELSE -1
    ELSE IF 2 * r >= 1000
    THEN RoundedFraction(2 * r - 1000, n - 1, TRUE, 1)
    ELSE RoundedFraction(2 * r, IF started THEN n - 1 ELSE n, started, 0)

\* the float nearest to scale thousandths, which is what float() makes of
\* the number, compared with the number: -1 below, 0 equal, 1 above
FloatSide(scale) ==
    RoundedFraction(scale % 1000, FloatBits - BitLength(scale \div 1000),
                    scale >= 1000, (scale \div 1000) % 2)

\* the hundredths that format(scale, ".2f") shows: the float rounded to the
\* nearest hundredth, a float midway between two going to the even one
Hundredths(scale) ==
    IF scale % 10 < 5 THEN scale \div 10
    ELSE IF scale % 10 > 5 THEN scale \div 10 + 1
    ELSE IF FloatSide(scale) > 0 THEN scale \div 10 + 1
    ELSE IF FloatSide(scale) < 0 THEN scale \div 10
    ELSE IF (scale \div 10) % 2 = 0 THEN scale \div 10
    ELSE scale \div 10 + 1

\* h hundredths written with two decimals
TwoDecimals(h) ==
    StrOfNat(h \div 100) \o <<".">>
        \o <<DigitChars[((h % 100) \div 10) + 1], DigitChars[(h % 10) + 1]>>

\* format(scale, ".2f") of a non-negative scale given in thousandths
Format2f(scale) == TwoDecimals(Hundredths(scale))

---------------------------------------------------------------------------
(* MockBridge (bridge_ros2.py).  A bridge is the record of its attributes; *)
(* an operation returns [b |-> the bridge after it, res |-> its result].   *)
(* The time.sleep calls change no state and are left out.                  *)

\* the result dict of a bridge operation; an absent key reads as None
BridgeResult(ok, error, placed_object, target, pose) ==
    [ok |-> ok, error |-> error, placed_object |-> placed_object,
     target |-> target, pose |-> pose, new_pose |-> None]

ResOk == BridgeResult(TRUE, None, None, None, None)

ResError(kind) == BridgeResult(FALSE, Some(kind), None, None, None)

\* MockBridge.__init__
MockBridge(zones, speed_scale) ==
    [held_object |-> None,
     speed_scale |-> speed_scale,
     zones       |-> zones,
     last_action |-> STR_idle,
     stopped     |-> FALSE]

\* the safety band of set_speed, in thousandths
MinScale == 100

MaxScale == 1000

\* set_speed refusing to act on a stopped bridge
set_speed_requires_running(b, scale) ==
    IF b.stopped
    THEN [b |-> b, res |-> ResError("stopped")]
    ELSE IF ~(MinScale <= scale /\ scale <= MaxScale)
    THEN [b |-> b, res |-> ResError("scale_out_of_range")]
    ELSE [b |-> [b EXCEPT !.speed_scale = scale,
                          !.last_action = STR_set_speed_ \o Format2f(scale)],
          res |-> ResOk]

\* set_speed storing the scale before it validates it
set_speed_stores_first(b, scale) ==
    LET b2 == [b EXCEPT !.speed_scale = scale,
                        !.last_action = STR_set_speed_ \o Format2f(scale)]
    IN  IF ~(MinScale <= scale /\ scale <= MaxScale)
        THEN [b |-> b2, res |-> ResError("scale_out_of_range")]
        ELSE [b |-> b2, res |-> ResOk]

\* MockBridge.set_speed
set_speed(b, scale) ==
    IF ~(MinScale <= scale /\ scale <= MaxScale)
    THEN [b |-> b, res |-> ResError("scale_out_of_range")]
    ELSE [b |-> [b EXCEPT !.speed_scale = scale,
                          !.last_action = STR_set_speed_ \o Format2f(scale)],
          res |-> ResOk]

\* stop leaving the gripper as it is
stop_keeps_held(b) ==
    [b |-> [b EXCEPT !.stopped = TRUE, !.last_action = STR_stop],
     res |-> ResOk]

\* MockBridge.stop
stop(b) ==
    [b |-> [b EXCEPT !.stopped = TRUE,
                     !.last_action = STR_stop,
                     !.held_object = None],
     res |-> ResOk]

\* pick without the stopped check
pick_ignores_stopped(b, object_id, grip_strength) ==
    [b |-> [b EXCEPT !.held_object = Some(object_id),
                     !.last_action = STR_pick_ \o object_id],
     res |-> ResOk]

\* pick recording itself in last_action even when it is refused
pick_logs_refusal(b, object_id, grip_strength) ==
    IF b.stopped
    THEN [b |-> [b EXCEPT !.last_action = STR_pick_ \o object_id],
          res |-> ResError("stopped")]
    ELSE [b |-> [b EXCEPT !.held_object = Some(object_id),
                          !.last_action = STR_pick_ \o object_id],
          res |-> ResOk]

\* pick refusing to grasp while the gripper already holds an object
pick_refuses_when_holding(b, object_id, grip_strength) ==
    IF b.stopped
    THEN [b |-> b, res |-> ResError("stopped")]
    ELSE IF ~IsNone(b.held_object)
    THEN [b |-> b, res |-> ResError("already_holding")]
    ELSE [b |-> [b EXCEPT !.held_object = Some(object_id),
                          !.last_action = STR_pick_ \o object_id],
          res |-> ResOk]

\* MockBridge.pick
pick(b, object_id, grip_strength) ==
    IF b.stopped
    THEN [b |-> b, res |-> ResError("stopped")]
    ELSE [b |-> [b EXCEPT !.held_object = Some(object_id),
                          !.last_action = STR_pick_ \o object_id],
          res |-> ResOk]

\* target or 'pose': None and the empty string are both falsy
TargetOrPose(target) ==
    IF IsNone(target) \/ Len(Get(target)) = 0 THEN STR_pose ELSE Get(target)

\* place without the no_object_held check
place_without_hold_check(b, target, pose) ==
    IF b.stopped
    THEN [b |-> b, res |-> ResError("stopped")]
    ELSE IF IsNone(target) /\ IsNone(pose)
    THEN [b |-> b, res |-> ResError("target_or_pose_required")]
    ELSE IF ~IsNone(target) /\ ~HasKey(b.zones, Get(target))
    THEN [b |-> b, res |-> ResError("unknown_zone")]
    ELSE [b |-> [b EXCEPT !.held_object = None,
                          !.last_action = STR_place_ \o TargetOrPose(target)],
          res |-> BridgeResult(TRUE, None, b.held_object, target, pose)]

\* MockBridge.place
place(b, target, pose) ==
    IF b.stopped
    THEN [b |-> b, res |-> ResError("stopped")]
    ELSE IF IsNone(b.held_object)
    THEN [b |-> b, res |-> ResError("no_object_held")]
    ELSE IF IsNone(target) /\ IsNone(pose)
    THEN [b |-> b, res |-> ResError("target_or_pose_required")]
    ELSE IF ~IsNone(target) /\ ~HasKey(b.zones, Get(target))
    THEN [b |-> b, res |-> ResError("unknown_zone")]
    ELSE [b |-> [b EXCEPT !.held_object = None,
                          !.last_action = STR_place_ \o TargetOrPose(target)],
          res |-> BridgeResult(TRUE, None, b.held_object, target, pose)]

\* query_status answering with the state of a freshly built bridge
query_status_of_new_bridge(b) ==
    [ok          |-> TRUE,
     held_object |-> None,
     speed_scale |-> b.speed_scale,
     stopped     |-> FALSE,
     last_action |-> STR_idle]

\* MockBridge.query_status
query_status(b) ==
    [ok          |-> TRUE,
     held_object |-> b.held_object,
     speed_scale |-> b.speed_scale,
     stopped     |-> b.stopped,
     last_action |-> b.last_action]

---------------------------------------------------------------------------
(* Settings (main.py).  SETTINGS is [zones |-> ordered dict from zone key   *)
(* to center pose, objects |-> function from object id to pose,            *)
(* safety_speed_scale |-> Optional scale].  A zone's tolerance_m and the   *)
(* workspace and llm sections are never read by the operations modelled    *)
(* here and are left out; the order of the object table is never read.     *)

\* build_bridge_from_settings: the zone table is copied key by key, the speed
\* is the configured safety default, 0.3 when the configuration has none
DefaultSpeedScale == 300

build_bridge_from_settings(settings) ==
    MockBridge(settings.zones,
               IF IsNone(settings.safety_speed_scale)
               THEN DefaultSpeedScale
               ELSE Get(settings.safety_speed_scale))

\* a zone reload that leaves the bridge's zone table as it is
reload_bridge_zones_skipped(b, settings) == b

\* a zone reload that replaces the bridge by a newly built one
reload_bridge_rebuilds(b, settings) ==
    MockBridge(settings.zones, b.speed_scale)

\* reload_bridge_zones_from_settings: BRIDGE.zones is rebuilt from SETTINGS
reload_bridge_zones_from_settings(b, settings) ==
    [b EXCEPT !.zones = settings.zones]

\* SETTINGS["zones"][id] = {center_pose, tolerance_m}
SetZone(settings, id, center_pose) ==
    [settings EXCEPT !.zones = DictSet(settings.zones, id, center_pose)]

\* SETTINGS.setdefault("objects", {})[id] = {"pose": pose}, and
\* SETTINGS.setdefault("objects", {}).setdefault(id, {})["pose"] = pose
SetObjectPose(settings, id, pose) ==
    [settings EXCEPT !.objects =
        [x \in DOMAIN settings.objects \cup {id} |->
            IF x = id THEN pose ELSE settings.objects[x]]]

\* SETTINGS.get("zones", {}).get(zone_key, {}).get("center_pose", {})
CenterPose(settings, zone_key) ==
    IF HasKey(settings.zones, zone_key) THEN settings.zones.val[zone_key] ELSE 0

---------------------------------------------------------------------------
(* The /tool-call dispatcher (main.py, tool_call).  It returns the outcome *)
(* of one request: the bridge and settings after it, whether save_settings *)
(* ran, the response, and the bridge operations invoked.                   *)

\* a JSON number (in thousandths) and a JSON string that is no number
JNum(v) == [t |-> "num", v |-> v]

JText == [t |-> "text", v |-> 0]

\* float(x) raises TypeError on None and ValueError on a non-numeric string
CanFloat(o) == ~IsNone(o) /\ Get(o).t = "num"

\* str(x): the argument itself when it is a string, "None" when it is missing
StrOf(o) == IF IsNone(o) THEN STR_None ELSE Get(o)

\* the default of pick's grip_strength
DefaultGripStrength == 600

\* ToolCallResponse(ok, result, error)
ToolCallResponse(ok, payload, error) ==
    [raised |-> FALSE, ok |-> ok, result |-> payload, error |-> error]

\* the handler left by raise HTTPException(status_code=400), which is what the
\* except clause of tool_call makes of every exception: no ToolCallResponse
HTTPException400 ==
    [raised |-> TRUE, ok |-> FALSE, result |-> None, error |-> None]

Outcome(b, settings, saved, response, ops) ==
    [BRIDGE |-> b, SETTINGS |-> settings, saved |-> saved,
     response |-> response, calls |-> ops]

\* one entry of the log of bridge operations: the operation, the object id
\* passed to it (pick), what the bridge held when it was invoked, its ok flag
Call(op, object_id, b, res) ==
    [op |-> op, object_id |-> object_id, held_before |-> b.held_object,
     ok |-> res.ok]

\* new_pose of the place and move_object branches
NewPose(settings, zone_key, pose) ==
    IF ~IsNone(zone_key) THEN CenterPose(settings, Get(zone_key))
    ELSE IF IsNone(pose) THEN 0 ELSE Get(pose)

\* zone_key of the place and move_object branches: None without a target;
\* ValueError when resolve_zone_key raises it
ZoneKeyOf(settings, target) ==
    IF IsNone(target) THEN None ELSE resolve_zone_key(settings, StrOf(target))

tool_call_get_config(b, settings) ==
    Outcome(b, settings, FALSE,
            ToolCallResponse(TRUE,
                Some([zones |-> settings.zones, objects |-> settings.objects]),
                None),
            <<>>)

tool_call_set_speed(b, settings, args) ==
    IF ~CanFloat(args.scale)
    THEN Outcome(b, settings, FALSE, HTTPException400, <<>>)
    ELSE LET r == set_speed(b, Get(args.scale).v)
         IN  Outcome(r.b, settings, FALSE,
                     ToolCallResponse(r.res.ok, Some(r.res), r.res.error),
                     <<Call("set_speed", None, b, r.res)>>)

tool_call_stop(b, settings) ==
    LET r == stop(b)
    IN  Outcome(r.b, settings, FALSE,
                ToolCallResponse(r.res.ok, Some(r.res), r.res.error),
                <<Call("stop", None, b, r.res)>>)

tool_call_pick(b, settings, args) ==
    LET object_id == StrOf(args.object_id)
    IN  IF ~IsNone(args.grip_strength) /\ ~CanFloat(args.grip_strength)
        THEN Outcome(b, settings, FALSE, HTTPException400, <<>>)
        ELSE LET grip_strength == IF IsNone(args.grip_strength)
                                  THEN DefaultGripStrength
                                  ELSE Get(args.grip_strength).v
                 r == pick(b, object_id, grip_strength)
             IN  Outcome(r.b, settings, FALSE,
                         ToolCallResponse(r.res.ok, Some(r.res), r.res.error),
                         <<Call("pick", Some(object_id), b, r.res)>>)

\* place persisting the pose before it asks the bridge
tool_call_place_persists_first(b, settings, args) ==
    LET target   == args.target
        pose     == args.pose
        zone_key == ZoneKeyOf(settings, target)
    IN  IF zone_key = ValueError
        THEN Outcome(b, settings, FALSE, HTTPException400, <<>>)
        ELSE IF ~IsNone(target) /\ IsNone(zone_key)
        THEN Outcome(b, settings, FALSE,
                     ToolCallResponse(FALSE, None, Some("unknown_zone")), <<>>)
        ELSE LET r        == place(b, zone_key, pose)
                 persist  == ~IsNone(b.held_object)
                 new_pose == NewPose(settings, zone_key, pose)
             IN  Outcome(r.b,
                         IF persist
                         THEN SetObjectPose(settings, Get(b.held_object), new_pose)
                         ELSE settings,
                         persist,
                         ToolCallResponse(r.res.ok, Some(r.res), r.res.error),
                         <<Call("place", None, b, r.res)>>)

tool_call_place(b, settings, args) ==
    LET target   == args.target
        pose     == args.pose
        zone_key == ZoneKeyOf(settings, target)
    IN  IF zone_key = ValueError
        THEN Outcome(b, settings, FALSE, HTTPException400, <<>>)
        ELSE IF ~IsNone(target) /\ IsNone(zone_key)
        THEN Outcome(b, settings, FALSE,
                     ToolCallResponse(FALSE, None, Some("unknown_zone")), <<>>)
        ELSE LET r        == place(b, zone_key, pose)
                 persist  == r.res.ok /\ ~IsNone(r.res.placed_object)
                                /\ Len(Get(r.res.placed_object)) > 0
                 new_pose == NewPose(settings, zone_key, pose)
             IN  Outcome(r.b,
                         IF persist
                         THEN SetObjectPose(settings, Get(r.res.placed_object), new_pose)
                         ELSE settings,
                         persist,
                         ToolCallResponse(r.res.ok, Some(r.res), r.res.error),
                         <<Call("place", None, b, r.res)>>)

\* move_object picking before it looks at the resolved target
tool_call_move_object_picks_first(b, settings, args) ==
    LET object_id == StrOf(args.object_id)
        target    == args.target
        pose      == args.pose
        zone_key  == ZoneKeyOf(settings, target)
        p1        == pick(b, object_id, DefaultGripStrength)
    IN  IF zone_key = ValueError
        THEN Outcome(b, settings, FALSE, HTTPException400, <<>>)
        ELSE IF ~p1.res.ok
        THEN Outcome(p1.b, settings, FALSE,
                     ToolCallResponse(FALSE, None, p1.res.error),
                     <<Call("pick", Some(object_id), b, p1.res)>>)
        ELSE IF ~IsNone(target) /\ IsNone(zone_key)
        THEN Outcome(p1.b, settings, FALSE,
                     ToolCallResponse(FALSE, None, Some("unknown_zone")),
                     <<Call("pick", Some(object_id), b, p1.res)>>)
        ELSE LET p2       == place(p1.b, zone_key, pose)
                 new_pose == NewPose(settings, zone_key, pose)
                 ops      == <<Call("pick", Some(object_id), b, p1.res),
                               Call("place", None, p1.b, p2.res)>>
             IN  IF p2.res.ok
                 THEN Outcome(p2.b,
                              SetObjectPose(settings, object_id, new_pose),
                              TRUE,
                              ToolCallResponse(TRUE,
                                  Some([p2.res EXCEPT !.new_pose = Some(new_pose)]),
                                  p2.res.error),
                              ops)
                 ELSE Outcome(p2.b, settings, FALSE,
                              ToolCallResponse(FALSE, Some(p2.res), p2.res.error),
                              ops)

\* move_object refusing a call without target and pose before it picks
tool_call_move_object_requires_destination(b, settings, args) ==
    IF IsNone(args.target) /\ IsNone(args.pose)
    THEN Outcome(b, settings, FALSE,
                 ToolCallResponse(FALSE, None, Some("target_or_pose_required")),
                 <<>>)
    ELSE tool_call_move_object_picks_first(b, settings, args)

tool_call_move_object(b, settings, args) ==
    LET object_id == StrOf(args.object_id)
        target    == args.target
        pose      == args.pose
        zone_key  == ZoneKeyOf(settings, target)
    IN  IF zone_key = ValueError
        THEN Outcome(b, settings, FALSE, HTTPException400, <<>>)
        ELSE IF ~IsNone(target) /\ IsNone(zone_key)
        THEN Outcome(b, settings, FALSE,
                     ToolCallResponse(FALSE, None, Some("unknown_zone")), <<>>)
        ELSE LET p1 == pick(b, object_id, DefaultGripStrength)
             IN  IF ~p1.res.ok
                 THEN Outcome(p1.b, settings, FALSE,
                              ToolCallResponse(FALSE, None, p1.res.error),
                              <<Call("pick", Some(object_id), b, p1.res)>>)
                 ELSE LET p2       == place(p1.b, zone_key, pose)
                          new_pose == NewPose(settings, zone_key, pose)
                          ops      == <<Call("pick", Some(object_id), b, p1.res),
                                        Call("place", None, p1.b, p2.res)>>
                      IN  IF p2.res.ok
                          THEN Outcome(p2.b,
                                       SetObjectPose(settings, object_id, new_pose),
                                       TRUE,
                                       ToolCallResponse(TRUE,
                                           Some([p2.res EXCEPT !.new_pose = Some(new_pose)]),
                                           p2.res.error),
                                       ops)
                          ELSE Outcome(p2.b, settings, FALSE,
                                       ToolCallResponse(FALSE, Some(p2.res), p2.res.error),
                                       ops)

tool_call_query_status(b, settings) ==
    Outcome(b, settings, FALSE,
            ToolCallResponse(TRUE, Some(query_status(b)), None), <<>>)

\* an unknown action name treated as a no-op that succeeds
tool_call_unknown_is_noop(b, settings) ==
    Outcome(b, settings, FALSE, ToolCallResponse(TRUE, None, None), <<>>)

tool_call_unknown(b, settings) ==
    Outcome(b, settings, FALSE,
            ToolCallResponse(FALSE, None, Some("unknown_tool")), <<>>)

\* tool_call: the branch is chosen by the request's name
tool_call(b, settings, name, args) ==
    CASE name = "get_config"   -> tool_call_get_config(b, settings)
      [] name = "set_speed"    -> tool_call_set_speed(b, settings, args)
      [] name = "stop"         -> tool_call_stop(b, settings)
      [] name = "pick"         -> tool_call_pick(b, settings, args)
      [] name = "place"        -> tool_call_place(b, settings, args)
      [] name = "move_object"  -> tool_call_move_object(b, settings, args)
      [] name = "query_status" -> tool_call_query_status(b, settings)
      [] OTHER                 -> tool_call_unknown(b, settings)

\* upsert_zone: set the zone, save, rebuild the bridge's zone table
upsert_zone(b, settings, id, center_pose) ==
    LET s2 == SetZone(settings, id, center_pose)
    IN  Outcome(reload_bridge_zones_from_settings(b, s2), s2, TRUE,
                [raised |-> FALSE, ok |-> TRUE,
                 result |-> Some([zone |-> CenterPose(s2, id)]), error |-> None],
                <<>>)

\* upsert_object: set the object's pose, save
upsert_object(b, settings, id, pose) ==
    LET s2 == SetObjectPose(settings, id, pose)
    IN  Outcome(b, s2, TRUE,
                [raised |-> FALSE, ok |-> TRUE,
                 result |-> Some([object |-> s2.objects[id]]), error |-> None],
                <<>>)

---------------------------------------------------------------------------
(* Inputs *)

S_r == <<"r">>

S_a == <<"a">>

S_empty == <<>>

\* object ids a caller may name: a plain id and the empty string
ObjectIds == {S_r, S_empty}

\* zone references: the ordinal 1, a name differing from the key "a" by case,
\* the empty string, and a name that no zone answers to
TargetRefs == {<<"1">>, <<"A">>, S_empty, <<"x">>}

\* the character c, n times
Repeat(c, n) == [i \in 1..n |-> c]

\* a string of MaxStrDigits + 1 digits: a reference of the ordinal shape
\* that int() does not convert
LongDigits == Repeat("1", MaxStrDigits) \o <<"1">>

\* the number 1 written with n digits
ZeroPadded(n) == Repeat("0", n - 1) \o <<"1">>

\* the references of the inputs that have more than MaxStrDigits digits
OverlongRefs == {LongDigits, ZeroPadded(MaxStrDigits + 1)}

\* the zone upserts a caller may send: [id, center_pose]
ZoneUpserts == {<<S_a, 1>>, <<S_empty, 1>>}

ObjectPoses == {1}

PoseArgValues == {2}

\* scales in thousandths: just outside, and on, both ends of the safety band,
\* and one inside it midway between two hundredths, whose float lies below
\* it: 0.145 is formatted 0.14
ScaleValues == {MinScale - 1, MinScale, 145, MaxScale, MaxScale + 1}

GripValues == {800}

\* the safety defaults a settings.yaml may carry: none, or a number that
\* nothing in load_settings or build_bridge_from_settings validates
ConfiguredSpeeds == {None, Some(1500)}

Optional(S) == {None} \cup {Some(v) : v \in S}

JsonFloats(S) == Optional({JNum(v) : v \in S} \cup {JText})

\* the object_id arguments of pick and move_object
ObjectIdArgs == {Some(o) : o \in ObjectIds}

NoArgs ==
    [scale |-> None, object_id |-> None, grip_strength |-> None,
     target |-> None, pose |-> None]

SetSpeedArgs == {[NoArgs EXCEPT !.scale = s] : s \in JsonFloats(ScaleValues)}

PickArgs ==
    {[NoArgs EXCEPT !.object_id = o, !.grip_strength = g] :
        o \in ObjectIdArgs, g \in JsonFloats(GripValues)}

PlaceArgs ==
    {[NoArgs EXCEPT !.target = t, !.pose = p] :
        t \in Optional(TargetRefs), p \in Optional(PoseArgValues)}
    \cup {[NoArgs EXCEPT !.target = Some(LongDigits)]}

MoveObjectArgs ==
    {[NoArgs EXCEPT !.object_id = o, !.target = t, !.pose = p] :
        o \in ObjectIdArgs, t \in Optional(TargetRefs),
        p \in Optional(PoseArgValues)}
    \cup {[NoArgs EXCEPT !.object_id = Some(S_r), !.target = Some(LongDigits)]}

\* action names outside the vocabulary; the comparison with the vocabulary is
\* exact, so a name differing from an action by case is one of them
UnknownNames == {"resume", "Pick"}

\* the most zones the model lets the configuration hold
MaxZones == 2

\* the settings.yaml read at startup
InitialSettings ==
    { [zones |-> z, objects |-> o, safety_speed_scale |-> sp] :
        z  \in {EmptyDict, DictSet(EmptyDict, S_a, 1)},
        o  \in {<<>>, (S_r :> 1)},
        sp \in ConfiguredSpeeds }

---------------------------------------------------------------------------
(* The state machine *)

\* armed after a bridge operation: set by a successful pick, cleared by a
\* successful place and by stop
ArmedStep(a, c) ==
    IF ~c.ok THEN a
    ELSE IF c.op = "pick" THEN TRUE
    ELSE IF c.op \in {"place", "stop"} THEN FALSE
    ELSE a

RECURSIVE ArmedAfter(_, _)
ArmedAfter(a, cs) ==
    IF Len(cs) = 0 THEN a ELSE ArmedAfter(ArmedStep(a, cs[1]), Tail(cs))

\* no handler is in progress
NoTask == [pc |-> "none"]

\* handlers running in worker threads: a request is started at any time
LoopNeverBusy == TRUE

\* the event loop starts a handler only when none is in progress
LoopIdle == task.pc = "none"

\* the module-level code of main.py: load the settings, build the bridge
Init ==
    /\ SETTINGS \in InitialSettings
    /\ SETTINGS_FILE = SETTINGS
    /\ BRIDGE = build_bridge_from_settings(SETTINGS)
    /\ req = "startup"
    /\ result = ToolCallResponse(TRUE, None, None)
    /\ calls = <<>>
    /\ armed = FALSE
    /\ task = NoTask

\* one request handled from its start, which waits for the loop to be idle,
\* to its end
Apply(name, out) ==
    /\ LoopIdle
    /\ BRIDGE' = out.BRIDGE
    /\ SETTINGS' = out.SETTINGS
    /\ SETTINGS_FILE' = IF out.saved THEN out.SETTINGS ELSE SETTINGS_FILE
    /\ req' = name
    /\ result' = out.response
    /\ calls' = out.calls
    /\ armed' = ArmedAfter(armed, out.calls)
    /\ UNCHANGED task

Handle(name, args) == Apply(name, tool_call(BRIDGE, SETTINGS, name, args))

GetConfig == Handle("get_config", NoArgs)

SetSpeed == \E args \in SetSpeedArgs : Handle("set_speed", args)

Stop == Handle("stop", NoArgs)

Pick == \E args \in PickArgs : Handle("pick", args)

Place == \E args \in PlaceArgs : Handle("place", args)

MoveObject == \E args \in MoveObjectArgs : Handle("move_object", args)

QueryStatus == Handle("query_status", NoArgs)

UnknownTool == \E name \in UnknownNames : Handle(name, NoArgs)

\* the model stops adding zones at MaxZones; the code has no such limit
ZoneFits(id) ==
    HasKey(SETTINGS.zones, id) \/ Len(SETTINGS.zones.keys) < MaxZones

UpsertZone ==
    \E z \in ZoneUpserts :
        /\ ZoneFits(z[1])
        /\ Apply("upsert_zone", upsert_zone(BRIDGE, SETTINGS, z[1], z[2]))

UpsertObject ==
    \E id \in ObjectIds, p \in ObjectPoses :
        Apply("upsert_object", upsert_object(BRIDGE, SETTINGS, id, p))

Next ==
    \/ GetConfig
    \/ SetSpeed
    \/ Stop
    \/ Pick
    \/ Place
    \/ MoveObject
    \/ QueryStatus
    \/ UnknownTool
    \/ UpsertZone
    \/ UpsertObject

Spec == Init /\ [][Next]_vars

---------------------------------------------------------------------------
(* Zone resolution on its own: the configuration's zone table grows by     *)
(* upserts over a larger set of zone ids, and resolve_zone_key is applied  *)
(* to a larger set of references.                                          *)

K_zone1 == <<"z","o","n","e","1">>

K_zone2 == <<"z","o","n","e","2">>

K_2 == <<"2">>

K_A_ == <<"A","-">>

\* the Kelvin sign, whose lower case is the letter k
K_kelvin == <<"U+212A">>

\* zone ids a caller may upsert: names of the shape zone + digits, a name
\* of pure digits, two names with the same canonical form "a", and a name
\* outside ASCII with the canonical form "k"
ZoneIdsZ == {K_zone1, K_zone2, K_2, S_a, K_A_, K_kelvin}

ZoneUpsertsZ == {<<id, p>> : id \in ZoneIdsZ, p \in {1, 2}}

\* references of the ordinal shape, each with the number its digits denote
\* (IntCap for a number above it); one ends in a form feed, three have
\* Arabic-Indic digits, which the canonical form drops, the last three have
\* MaxStrDigits digits or one more
OrdinalRefs ==
    { << <<"1">>, 1 >>,
      << <<" ","2"," ">>, 2 >>,
      << <<"0","2">>, 2 >>,
      << <<"z","o","n","e"," ","1">>, 1 >>,
      << K_zone1, 1 >>,
      << <<"Z","O","N","E","2">>, 2 >>,
      << <<"\t","Z","o","n","e"," "," ","3","\n">>, 3 >>,
      << <<"0">>, 0 >>,
      << <<"z","o","n","e","9">>, 9 >>,
      << <<"1","0">>, 10 >>,
      << <<"1","\f">>, 1 >>,
      << <<"U+0661">>, 1 >>,
      << <<"U+0662">>, 2 >>,
      << <<"z","o","n","e","U+0661">>, 1 >>,
      << ZeroPadded(MaxStrDigits), 1 >>,
      << ZeroPadded(MaxStrDigits + 1), 1 >>,
      << LongDigits, IntCap >> }

K_long == <<"-">> \o LongDigits

\* references that are not of the ordinal shape; one has a letter outside
\* ASCII, which the canonical form drops, one is a hyphen and more than
\* MaxStrDigits digits
NameRefs ==
    { <<"Z","o","n","e","-","1">>,
      <<"z","o","n","e","_","2">>,
      <<"z","o","n","e">>,
      <<"2","a">>,
      <<"-","2">>,
      <<"A">>,
      <<" ","a"," ">>,
      K_A_,
      <<"K">>,
      <<"a","É">>,
      <<"x">>,
      K_long,
      S_empty }

RefsZ == {r[1] : r \in OrdinalRefs} \cup NameRefs

\* the settings.yaml read at startup: no zone, two zones declared with the
\* one named by a higher number first, or one zone named by more than
\* MaxStrDigits digits
InitialSettingsZ ==
    { [zones |-> z, objects |-> <<>>, safety_speed_scale |-> None] :
        z \in {EmptyDict, DictSet(DictSet(EmptyDict, K_zone2, 1), K_zone1, 2),
               DictSet(EmptyDict, LongDigits, 1)} }

InitZ ==
    /\ SETTINGS \in InitialSettingsZ
    /\ SETTINGS_FILE = SETTINGS
    /\ BRIDGE = build_bridge_from_settings(SETTINGS)
    /\ req = "startup"
    /\ result = ToolCallResponse(TRUE, None, None)
    /\ calls = <<>>
    /\ armed = FALSE
    /\ task = NoTask

UpsertZoneZ ==
    \E z \in ZoneUpsertsZ :
        /\ ZoneFits(z[1])
        /\ Apply("upsert_zone", upsert_zone(BRIDGE, SETTINGS, z[1], z[2]))

\* resolve_zone_key applied to one reference; result records the reference
\* and the key it resolved to
ResolveZ ==
    \E ref \in RefsZ :
        /\ req' = "resolve_zone_key"
        /\ result' = [ref |-> ref, key |-> resolve_zone_key(SETTINGS, ref)]
        /\ UNCHANGED <<BRIDGE, SETTINGS, SETTINGS_FILE, calls, armed, task>>

NextZ ==
    \/ UpsertZoneZ
    \/ ResolveZ

SpecZ == InitZ /\ [][NextZ]_vars

---------------------------------------------------------------------------
(* Properties of the bridge and the dispatcher, checked under Spec.  A     *)
(* property of one request is stated for every reachable state and every   *)
(* request of the argument sets above: Out is what the dispatcher would    *)
(* make of the request in the current state.                               *)

Out(name, args) == tool_call(BRIDGE, SETTINGS, name, args)

\* the request left the bridge, the settings and settings.yaml as they were
NoEffect(out) ==
    /\ out.BRIDGE = BRIDGE
    /\ out.SETTINGS = SETTINGS
    /\ ~out.saved

Failed(out, kind) ==
    /\ ~out.response.raised
    /\ ~out.response.ok
    /\ out.response.error = Some(kind)

InBand(scale) == MinScale <= scale /\ scale <= MaxScale

\* the zone a reference of the arguments names in the current zone table,
\* read off the references one by one: "1" is an ordinal, "A" is the key "a"
\* up to case, "" is the empty key, "x" and LongDigits are no zone
ExpectedZone(ref) ==
    LET keys == SETTINGS.zones.keys
    IN  CASE ref = <<"1">> -> IF Len(keys) >= 1 THEN Some(keys[1]) ELSE None
          [] ref = <<"A">> -> IF InSeq(keys, S_a) THEN Some(S_a) ELSE None
          [] ref = S_empty -> IF InSeq(keys, S_empty) THEN Some(S_empty) ELSE None
          [] OTHER         -> None

Unresolved(args) == ~IsNone(args.target) /\ IsNone(ExpectedZone(Get(args.target)))

\* the target is a reference of more than MaxStrDigits digits
Overlong(args) == ~IsNone(args.target) /\ Get(args.target) \in OverlongRefs

\* the request was refused as a bad request: the handler raised
BadRequest(out) == out.response.raised /\ ~out.response.ok

NumericGrip(args) == IsNone(args.grip_strength) \/ CanFloat(args.grip_strength)

\* C1 (as claimed): in every reachable state, the initial one included, the
\* bridge's speed_scale lies in [0.1, 1.0].
C1_SpeedScaleInBand == InBand(BRIDGE.speed_scale)

\* C2: set_speed with a scale outside [0.1, 1.0] fails with
\* scale_out_of_range in every state and leaves speed_scale, held_object,
\* stopped and last_action (the whole bridge) as they were.
C2_SetSpeedOutOfBandRejected ==
    \A a \in SetSpeedArgs :
        (CanFloat(a.scale) /\ ~InBand(Get(a.scale).v)) =>
            LET out == Out("set_speed", a)
            IN  /\ Failed(out, "scale_out_of_range")
                /\ out.BRIDGE.speed_scale = BRIDGE.speed_scale
                /\ out.BRIDGE.held_object = BRIDGE.held_object
                /\ out.BRIDGE.stopped = BRIDGE.stopped
                /\ out.BRIDGE.last_action = BRIDGE.last_action
                /\ NoEffect(out)

\* a set_speed was just rejected on a bridge that holds an object and whose
\* speed an earlier set_speed had set
C2_Witness ==
    /\ req = "set_speed"
    /\ result.error = Some("scale_out_of_range")
    /\ Len(calls) = 1 /\ ~calls[1].ok
    /\ BRIDGE.speed_scale = MaxScale
    /\ ~IsNone(BRIDGE.held_object)

\* C3: stop succeeds from every state and leaves stopped = true and
\* held_object = none; a pick issued directly after it fails with stopped
\* and leaves held_object = none.
C3_StopClearsAndBlocksPick ==
    LET s == Out("stop", NoArgs)
    IN  /\ ~s.response.raised /\ s.response.ok
        /\ s.BRIDGE.stopped
        /\ s.BRIDGE.held_object = None
        /\ \A a \in PickArgs :
              NumericGrip(a) =>
                  LET p == tool_call(s.BRIDGE, s.SETTINGS, "pick", a)
                  IN  /\ Failed(p, "stopped")
                      /\ p.BRIDGE.held_object = None
                      /\ p.BRIDGE.stopped

\* a stop was just handled on a running bridge that held an object
C3_Witness ==
    /\ req = "stop"
    /\ result.ok
    /\ Len(calls) = 1 /\ ~IsNone(calls[1].held_before)
    /\ BRIDGE.stopped
    /\ BRIDGE.held_object = None

\* C4 (as claimed): on a stopped bridge pick, place and move_object fail with
\* error stopped whatever their arguments, and change nothing.
C4_StoppedAlwaysAnswersStopped ==
    BRIDGE.stopped =>
        /\ \A a \in PickArgs :
              LET out == Out("pick", a) IN Failed(out, "stopped") /\ NoEffect(out)
        /\ \A a \in PlaceArgs :
              LET out == Out("place", a) IN Failed(out, "stopped") /\ NoEffect(out)
        /\ \A a \in MoveObjectArgs :
              LET out == Out("move_object", a)
              IN  Failed(out, "stopped") /\ NoEffect(out)

\* C4 (amended): on a stopped bridge pick, place and move_object never
\* succeed and change nothing (held_object, last_action, object poses); the
\* error is stopped, except that a place or move_object whose target resolves
\* to no zone fails with unknown_zone, and that a pick whose grip_strength is
\* not a number, and a place or move_object whose target is a number of
\* more than 4300 digits, are refused as bad requests.
C4_StoppedAcceptsNoMotion ==
    BRIDGE.stopped =>
        /\ \A a \in PickArgs :
              LET out == Out("pick", a)
              IN  /\ ~out.response.ok
                  /\ NoEffect(out)
                  /\ IF NumericGrip(a) THEN Failed(out, "stopped")
                     ELSE out.response.raised
        /\ \A a \in PlaceArgs :
              LET out == Out("place", a)
              IN  /\ NoEffect(out)
                  /\ IF Overlong(a) THEN BadRequest(out)
                     ELSE Failed(out, IF Unresolved(a) THEN "unknown_zone"
                                      ELSE "stopped")
        /\ \A a \in MoveObjectArgs :
              LET out == Out("move_object", a)
              IN  /\ NoEffect(out)
                  /\ IF Overlong(a) THEN BadRequest(out)
                     ELSE Failed(out, IF Unresolved(a) THEN "unknown_zone"
                                      ELSE "stopped")

\* a move_object was just refused with stopped by the bridge's pick, on a
\* stopped bridge whose configuration has a zone and an object pose
C4_Witness ==
    /\ req = "move_object"
    /\ result.error = Some("stopped")
    /\ Len(calls) = 1 /\ calls[1].op = "pick" /\ ~calls[1].ok
    /\ BRIDGE.stopped
    /\ Len(SETTINGS.zones.keys) >= 1
    /\ DOMAIN SETTINGS.objects # {}

\* every successful place follows a successful pick with no successful place
\* or stop in between: a place that would succeed now finds armed set, and a
\* move_object that succeeds has run its own pick first
PlaceFollowsPick ==
    /\ \A a \in PlaceArgs : Out("place", a).response.ok => armed
    /\ \A a \in MoveObjectArgs :
          LET out == Out("move_object", a)
          IN  out.response.ok =>
                  /\ Len(out.calls) = 2
                  /\ out.calls[1].op = "pick" /\ out.calls[1].ok
                  /\ out.calls[2].op = "place" /\ out.calls[2].ok

\* C5 (as claimed): on a running bridge that holds nothing, place by target
\* or by pose fails with no_object_held and changes neither the bridge nor
\* any object pose; every successful place follows a successful pick.
C5_EmptyGripperAnswersNoObjectHeld ==
    /\ (~BRIDGE.stopped /\ IsNone(BRIDGE.held_object)) =>
          \A a \in PlaceArgs :
              LET out == Out("place", a)
              IN  Failed(out, "no_object_held") /\ NoEffect(out)
    /\ PlaceFollowsPick

\* C5 (amended): on a running bridge that holds nothing, place never
\* succeeds and changes neither the bridge nor any object pose; it fails
\* with no_object_held, or with unknown_zone when its target resolves to no
\* zone, or is refused as a bad request when its target is a number of more
\* than 4300 digits; every successful place follows a successful pick.
C5_NothingPlacedWhileNothingHeld ==
    /\ (~BRIDGE.stopped /\ IsNone(BRIDGE.held_object)) =>
          \A a \in PlaceArgs :
              LET out == Out("place", a)
              IN  /\ NoEffect(out)
                  /\ IF Overlong(a) THEN BadRequest(out)
                     ELSE Failed(out, IF Unresolved(a) THEN "unknown_zone"
                                      ELSE "no_object_held")
    /\ PlaceFollowsPick

\* a place with a resolvable target was just refused with no_object_held on
\* a running bridge, the configuration holding a zone and an object pose
C5_Witness ==
    /\ req = "place"
    /\ result.error = Some("no_object_held")
    /\ Len(calls) = 1 /\ calls[1].op = "place" /\ IsNone(calls[1].held_before)
    /\ ~BRIDGE.stopped
    /\ Len(SETTINGS.zones.keys) >= 1
    /\ DOMAIN SETTINGS.objects # {}

\* C6 (as claimed): a move_object that returns ok = false leaves held_object,
\* last_action, stopped, speed_scale and all object poses as they were.
C6_FailedMoveHasNoEffect ==
    \A a \in MoveObjectArgs :
        LET out == Out("move_object", a)
        IN  ~out.response.ok => NoEffect(out)

\* C7 (as claimed): a place or move_object whose target is given but names
\* no configured zone fails with unknown_zone without any bridge operation
\* being invoked: no pick is attempted, and the bridge and the object poses
\* are unchanged.
C7_UnresolvedTargetSkipsBridge ==
    /\ \A a \in PlaceArgs :
          Unresolved(a) =>
              LET out == Out("place", a)
              IN  Failed(out, "unknown_zone") /\ out.calls = <<>> /\ NoEffect(out)
    /\ \A a \in MoveObjectArgs :
          Unresolved(a) =>
              LET out == Out("move_object", a)
              IN  Failed(out, "unknown_zone") /\ out.calls = <<>> /\ NoEffect(out)

\* C8 (as claimed): on a running bridge move_object(o, target = r), r
\* resolving to zone z, succeeds for every object id o: a pick of o is
\* recorded before the place, and afterwards held_object = none,
\* last_action records the place at z, the persisted pose of o is z's center
\* pose, and the result carries that pose as new_pose.
C8_MoveToZone ==
    ~BRIDGE.stopped =>
        \A a \in MoveObjectArgs :
            (~IsNone(a.target) /\ ~Unresolved(a)) =>
                LET out == Out("move_object", a)
                    o   == Get(a.object_id)
                    z   == Get(ExpectedZone(Get(a.target)))
                IN  /\ ~out.response.raised /\ out.response.ok
                    /\ Len(out.calls) = 2
                    /\ out.calls[1].op = "pick" /\ out.calls[1].ok
                    /\ out.calls[1].object_id = Some(o)
                    /\ out.calls[2].op = "place" /\ out.calls[2].ok
                    /\ out.calls[2].held_before = Some(o)
                    /\ out.BRIDGE.held_object = None
                    /\ out.BRIDGE.last_action = STR_place_ \o z
                    /\ o \in DOMAIN out.SETTINGS.objects
                    /\ out.SETTINGS.objects[o] = SETTINGS.zones.val[z]
                    /\ out.saved
                    /\ Get(out.response.result).new_pose = Some(SETTINGS.zones.val[z])

---------------------------------------------------------------------------
(* Properties of zone resolution, checked under SpecZ. *)

\* the canonical form (lower-cased, every character but a-z and 0-9
\* removed) of every reference of RefsZ and every zone id of ZoneIdsZ,
\* written out
CanonicalForms ==
    {
      << <<"1","\f">>, <<"1">> >>,
      << <<"U+0661">>, <<>> >>,
      << <<"U+0662">>, <<>> >>,
      << <<"z","o","n","e","U+0661">>, <<"z","o","n","e">> >>,
      << <<"K">>, <<"k">> >>,
      << <<"U+212A">>, <<"k">> >>,
      << <<"a","É">>, <<"a">> >>,
      << <<"1">>, <<"1">> >>,
      << <<" ","2"," ">>, <<"2">> >>,
      << <<"0","2">>, <<"0","2">> >>,
      << <<"z","o","n","e"," ","1">>, <<"z","o","n","e","1">> >>,
      << <<"z","o","n","e","1">>, <<"z","o","n","e","1">> >>,
      << <<"Z","O","N","E","2">>, <<"z","o","n","e","2">> >>,
      << <<"\t","Z","o","n","e"," "," ","3","\n">>, <<"z","o","n","e","3">> >>,
      << <<"0">>, <<"0">> >>,
      << <<"z","o","n","e","9">>, <<"z","o","n","e","9">> >>,
      << <<"1","0">>, <<"1","0">> >>,
      << <<"Z","o","n","e","-","1">>, <<"z","o","n","e","1">> >>,
      << <<"z","o","n","e","_","2">>, <<"z","o","n","e","2">> >>,
      << <<"z","o","n","e">>, <<"z","o","n","e">> >>,
      << <<"2","a">>, <<"2","a">> >>,
      << <<"-","2">>, <<"2">> >>,
      << <<"A">>, <<"a">> >>,
      << <<" ","a"," ">>, <<"a">> >>,
      << <<"A","-">>, <<"a">> >>,
      << <<"x">>, <<"x">> >>,
      << <<>>, <<>> >>,
      << <<"z","o","n","e","2">>, <<"z","o","n","e","2">> >>,
      << <<"2">>, <<"2">> >>,
      << <<"a">>, <<"a">> >>,
      << ZeroPadded(MaxStrDigits), ZeroPadded(MaxStrDigits) >>,
      << ZeroPadded(MaxStrDigits + 1), ZeroPadded(MaxStrDigits + 1) >>,
      << LongDigits, LongDigits >>,
      << K_long, LongDigits >> }

CanonicalOf(x) == (CHOOSE r \in CanonicalForms : r[1] = x)[2]

\* ref is of the ordinal shape and its number is in range for n zones
InRangeOrdinal(ref, n) ==
    \E r \in OrdinalRefs : r[1] = ref /\ 1 <= r[2] /\ r[2] <= n

\* the number of the ordinal reference ref
OrdinalOf(ref) == (CHOOSE r \in OrdinalRefs : r[1] = ref)[2]

\* the first key of the zone table with the canonical form of ref, if any
FirstKeyWithCanonicalForm(ref) ==
    LET keys == SETTINGS.zones.keys
        hits == {i \in 1..Len(keys) : CanonicalOf(keys[i]) = CanonicalOf(ref)}
    IN  IF hits = {} THEN None
        ELSE Some(keys[CHOOSE i \in hits : \A j \in hits : i <= j])

\* What resolving ref against the zone table gives, read off the reference:
\* a ValueError for an ordinal of more than MaxStrDigits digits, the n-th
\* key for any other ordinal n in range, and for every other reference the
\* first key with its canonical form, if any
ExpectedKey(ref) ==
    IF ref \in OverlongRefs THEN ValueError
    ELSE IF InRangeOrdinal(ref, Len(SETTINGS.zones.keys))
    THEN Some(SETTINGS.zones.keys[OrdinalOf(ref)])
    ELSE FirstKeyWithCanonicalForm(ref)

\* C9 (as claimed): a reference of the shape optional "zone" + digits n,
\* 1 <= n <= number of zones, resolves to the n-th zone key in declaration order; a zone
\* upsert keeps that order: updating an existing zone keeps every zone's
\* place, and a new zone goes last without moving the others.
C9_OrdinalsFollowDeclarationOrder ==
    LET keys == SETTINGS.zones.keys
    IN  /\ \A r \in OrdinalRefs :
              (1 <= r[2] /\ r[2] <= Len(keys)) =>
                  resolve_zone_key(SETTINGS, r[1]) = Some(keys[r[2]])
        /\ \A z \in ZoneUpsertsZ :
              LET out   == upsert_zone(BRIDGE, SETTINGS, z[1], z[2])
                  after == out.SETTINGS.zones.keys
              IN  /\ \A i \in 1..Len(keys) : after[i] = keys[i]
                  /\ IF InSeq(keys, z[1]) THEN after = keys
                     ELSE after = Append(keys, z[1])
                  /\ out.SETTINGS.zones.val[z[1]] = z[2]
                  /\ \A r \in OrdinalRefs :
                        (1 <= r[2] /\ r[2] <= Len(keys)) =>
                            resolve_zone_key(out.SETTINGS, r[1]) = Some(keys[r[2]])

\* C10 (as claimed): for every configured zone key k, any reference with the
\* canonical form of k resolves to k itself, also when k is of the shape
\* zone + digits or pure digits and the table holds several zones.
C10_CanonicalReferenceResolvesToKey ==
    LET keys == SETTINGS.zones.keys
    IN  \A i \in 1..Len(keys) : \A ref \in RefsZ :
            CanonicalOf(ref) = CanonicalOf(keys[i]) =>
                resolve_zone_key(SETTINGS, ref) = Some(keys[i])

\* C10 (amended): for every configured zone key k that is the first key
\* with its canonical form, any reference with that canonical form resolves
\* to k itself, unless the reference is of the ordinal shape (optional
\* "zone" + digits n): then more than 4300 digits make the resolution fail
\* with a ValueError, and otherwise 1 <= n <= number of zones makes it
\* resolve to the n-th zone instead.
C10_CanonicalReferenceResolvesToFirstKey ==
    LET keys == SETTINGS.zones.keys
    IN  \A i \in 1..Len(keys) : \A ref \in RefsZ :
            ( /\ CanonicalOf(ref) = CanonicalOf(keys[i])
              /\ \A j \in 1..(i - 1) : CanonicalOf(keys[j]) # CanonicalOf(keys[i]) ) =>
                IF ref \in OverlongRefs
                THEN resolve_zone_key(SETTINGS, ref) = ValueError
                ELSE IF InRangeOrdinal(ref, Len(keys))
                THEN resolve_zone_key(SETTINGS, ref) = Some(keys[OrdinalOf(ref)])
                ELSE resolve_zone_key(SETTINGS, ref) = Some(keys[i])

\* the reference "Zone-1" was just resolved to the key "zone1", declared
\* second of two zones
C10_Witness ==
    /\ req = "resolve_zone_key"
    /\ result.ref = <<"Z","o","n","e","-","1">>
    /\ result.key = Some(K_zone1)
    /\ Len(SETTINGS.zones.keys) = 2
    /\ SETTINGS.zones.keys[2] = K_zone1


---------------------------------------------------------------------------
(* Further properties of the bridge and the dispatcher, checked under Spec. *)

\* C11: on a running bridge a pick of a followed directly by a pick of b
\* succeeds both times, whatever the bridge held before, and leaves
\* held_object = b; neither pick touches the object table or settings.yaml,
\* so the persisted pose of a is as it was.
C11_PickWhileHoldingSucceeds ==
    ~BRIDGE.stopped =>
        \A a1 \in PickArgs, a2 \in PickArgs :
            (NumericGrip(a1) /\ NumericGrip(a2)) =>
                LET p1 == Out("pick", a1)
                    p2 == tool_call(p1.BRIDGE, p1.SETTINGS, "pick", a2)
                IN  /\ ~p1.response.raised /\ p1.response.ok
                    /\ p1.BRIDGE.held_object = a1.object_id
                    /\ ~p2.response.raised /\ p2.response.ok
                    /\ p2.response.error = None
                    /\ p2.BRIDGE.held_object = a2.object_id
                    /\ p2.BRIDGE.last_action = STR_pick_ \o Get(a2.object_id)
                    /\ ~p2.BRIDGE.stopped
                    /\ p2.SETTINGS = SETTINGS
                    /\ ~p1.saved /\ ~p2.saved

\* a pick of b has just succeeded on a bridge that was holding another
\* object a, and a has a persisted pose
C11_Witness ==
    /\ req = "pick"
    /\ result.ok
    /\ Len(calls) = 1 /\ calls[1].op = "pick" /\ calls[1].ok
    /\ ~IsNone(calls[1].held_before)
    /\ BRIDGE.held_object = calls[1].object_id
    /\ calls[1].held_before # BRIDGE.held_object
    /\ Get(calls[1].held_before) \in DOMAIN SETTINGS.objects

\* C12: query_status succeeds in every state and returns exactly the
\* bridge's held_object, speed_scale, stopped and last_action; it invokes no
\* mutating bridge operation and leaves bridge, configuration and
\* settings.yaml as they were, so a second query_status directly after it
\* returns the identical snapshot.
C12_QueryStatusIsPureSnapshot ==
    LET q1   == Out("query_status", NoArgs)
        q2   == tool_call(q1.BRIDGE, q1.SETTINGS, "query_status", NoArgs)
        snap == Get(q1.response.result)
    IN  /\ ~q1.response.raised /\ q1.response.ok
        /\ ~IsNone(q1.response.result)
        /\ snap.held_object = BRIDGE.held_object
        /\ snap.speed_scale = BRIDGE.speed_scale
        /\ snap.stopped = BRIDGE.stopped
        /\ snap.last_action = BRIDGE.last_action
        /\ q1.calls = <<>>
        /\ NoEffect(q1)
        /\ q2.response = q1.response
        /\ q2.BRIDGE = BRIDGE /\ q2.SETTINGS = SETTINGS /\ ~q2.saved

\* a query_status has just answered on a bridge that holds an object and
\* whose speed a set_speed has changed
C12_Witness ==
    /\ req = "query_status"
    /\ result.ok
    /\ ~IsNone(result.result)
    /\ ~IsNone(Get(result.result).held_object)
    /\ Get(result.result).held_object = BRIDGE.held_object
    /\ Get(result.result).speed_scale = MinScale
    /\ Get(result.result).last_action # STR_idle

\* the argument maps an unknown action may come with
AnyArgs == {NoArgs} \cup SetSpeedArgs \cup PickArgs \cup MoveObjectArgs

\* C13: a request whose name is outside the vocabulary fails with
\* unknown_tool whatever its arguments, invokes no bridge operation and
\* changes neither the bridge nor the configuration.
C13_UnknownActionRejected ==
    \A name \in UnknownNames, a \in AnyArgs :
        LET out == Out(name, a)
        IN  /\ Failed(out, "unknown_tool")
            /\ out.calls = <<>>
            /\ NoEffect(out)

\* an unknown action has just been rejected on a bridge that holds an object
C13_Witness ==
    /\ req \in UnknownNames
    /\ ~result.ok
    /\ result.error = Some("unknown_tool")
    /\ calls = <<>>
    /\ ~IsNone(BRIDGE.held_object)

\* pick and move_object requests whose argument map has no object_id
PickArgsNoId ==
    {[NoArgs EXCEPT !.grip_strength = g] : g \in JsonFloats(GripValues)}

MoveObjectArgsNoId ==
    {[NoArgs EXCEPT !.target = t, !.pose = p] :
        t \in Optional(TargetRefs), p \in Optional(PoseArgValues)}

\* the request is refused before any bridge operation runs
RefusedBeforeBridge(out) ==
    /\ ~out.response.ok
    /\ out.calls = <<>>
    /\ NoEffect(out)

\* C14 (as claimed): a set_speed without scale, a pick without object_id and
\* a move_object without object_id are refused with an argument error before
\* any bridge operation runs: held_object, speed_scale, last_action and the
\* persisted object poses are unchanged.
C14_MissingArgumentRefused ==
    /\ RefusedBeforeBridge(Out("set_speed", NoArgs))
    /\ \A a \in PickArgsNoId : RefusedBeforeBridge(Out("pick", a))
    /\ \A a \in MoveObjectArgsNoId : RefusedBeforeBridge(Out("move_object", a))

\* every request of the argument sets, as <<name, arguments>>
Requests ==
    ({"get_config", "stop", "query_status"} \cup UnknownNames) \X {NoArgs}
    \cup ({"set_speed"} \X SetSpeedArgs)
    \cup ({"pick"} \X (PickArgs \cup PickArgsNoId))
    \cup ({"place"} \X PlaceArgs)
    \cup ({"move_object"} \X (MoveObjectArgs \cup MoveObjectArgsNoId))

\* the named kinds of the error taxonomy
ErrorKinds ==
    {"scale_out_of_range", "stopped", "no_object_held",
     "target_or_pose_required", "unknown_zone", "unknown_tool"}

\* C15 (as claimed): every dispatcher call that does not succeed returns a
\* ToolCallResponse with ok = false and an error kind of the taxonomy; none
\* leaves the dispatcher as a raised exception.
C15_FailuresAreStructuredResults ==
    \A r \in Requests :
        LET out == Out(r[1], r[2])
        IN  ~out.response.ok =>
                /\ ~out.response.raised
                /\ ~IsNone(out.response.error)
                /\ Get(out.response.error) \in ErrorKinds

\* the pose a successful placement persists: the center pose of the zone the
\* target names, or the pose argument when no target is given
ExpectedPose(args) ==
    IF ~IsNone(args.target)
    THEN SETTINGS.zones.val[Get(ExpectedZone(Get(args.target)))]
    ELSE Get(args.pose)

\* after the request the object table holds pose for object o
Persisted(out, o, pose) ==
    /\ o \in DOMAIN out.SETTINGS.objects
    /\ out.SETTINGS.objects[o] = pose

\* C16 (as claimed): after a successful place, or move_object, the persisted
\* pose of the placed object is the resolved zone's center pose when a target
\* was given (a pose given with it is ignored) and the pose argument when
\* only a pose was given; an object id not in the table is inserted.
C16_PlacedObjectPose ==
    /\ \A a \in PlaceArgs :
          LET out == Out("place", a)
          IN  out.response.ok =>
                  Persisted(out, Get(BRIDGE.held_object), ExpectedPose(a))
    /\ \A a \in MoveObjectArgs :
          LET out == Out("move_object", a)
          IN  out.response.ok =>
                  Persisted(out, Get(a.object_id), ExpectedPose(a))

\* C17 (as claimed): whenever place or move_object returns ok = true, the
\* bridge has released its object and the same call has written a pose for
\* that object to the object table and saved it, whatever the object's id.
C17_ReleaseAndPersistenceTogether ==
    /\ \A a \in PlaceArgs :
          LET out == Out("place", a)
          IN  out.response.ok =>
                  /\ IsNone(out.BRIDGE.held_object)
                  /\ out.saved
                  /\ Get(BRIDGE.held_object) \in DOMAIN out.SETTINGS.objects
    /\ \A a \in MoveObjectArgs :
          LET out == Out("move_object", a)
          IN  out.response.ok =>
                  /\ IsNone(out.BRIDGE.held_object)
                  /\ out.saved
                  /\ Get(a.object_id) \in DOMAIN out.SETTINGS.objects

\* C19: among the dispatcher's requests only a successful place or
\* move_object changes the object table: get_config, set_speed, stop, pick,
\* query_status, unknown actions and every place or move_object that does not
\* succeed leave the persisted object poses, and settings.yaml, as they were.
C19_ObjectPosesChangeOnlyByPlacement ==
    \A r \in Requests :
        LET out == Out(r[1], r[2])
        IN  (r[1] \notin {"place", "move_object"} \/ ~out.response.ok) =>
                /\ out.SETTINGS.objects = SETTINGS.objects
                /\ out.SETTINGS = SETTINGS
                /\ ~out.saved

\* a place has just been refused by the bridge for want of target and pose
\* while the gripper holds an object and the object table has an entry
C19_Witness ==
    /\ req = "place"
    /\ ~result.ok
    /\ result.error = Some("target_or_pose_required")
    /\ Len(calls) = 1 /\ calls[1].op = "place" /\ ~calls[1].ok
    /\ ~IsNone(BRIDGE.held_object)
    /\ DOMAIN SETTINGS.objects # {}
    /\ SETTINGS_FILE = SETTINGS

\* C20: once stopped is true it is true in every later state: no request to
\* the dispatcher, no zone upsert (which rebuilds the bridge's zone table)
\* and no object upsert makes the bridge run again.
C20_StoppedIsPermanent == [][BRIDGE.stopped => BRIDGE'.stopped]_vars

\* a zone upsert has just rebuilt the zone table of a stopped bridge
C20_Witness ==
    /\ req = "upsert_zone"
    /\ result.ok
    /\ BRIDGE.stopped
    /\ BRIDGE.last_action = STR_stop
    /\ Len(BRIDGE.zones.keys) >= 1

---------------------------------------------------------------------------
(* Concurrent requests.  tool_call, upsert_zone and upsert_object are      *)
(* coroutines (async def) served by the one event loop of the server       *)
(* process, and none of them contains an await: the loop runs a handler    *)
(* from its first statement to its return before it starts the next        *)
(* request, however many clients have requests waiting.  SpecC takes       *)
(* move_object apart into its steps - resolve the target, pick, place -    *)
(* and lets the loop start any other waiting request whenever it is idle.  *)

\* the response slot of a request that has not returned yet
Pending == [raised |-> FALSE, ok |-> FALSE, result |-> None, error |-> None]

\* move_object up to the call of BRIDGE.pick: read the arguments, resolve
\* the target, which may raise, return unknown_zone if it names no zone
MoveObjectBegin ==
    \E args \in MoveObjectArgs :
        /\ LoopIdle
        /\ LET zone_key == ZoneKeyOf(SETTINGS, args.target)
           IN  IF zone_key = ValueError
               THEN Apply("move_object",
                          Outcome(BRIDGE, SETTINGS, FALSE, HTTPException400, <<>>))
               ELSE IF ~IsNone(args.target) /\ IsNone(zone_key)
               THEN Apply("move_object",
                          Outcome(BRIDGE, SETTINGS, FALSE,
                                  ToolCallResponse(FALSE, None, Some("unknown_zone")),
                                  <<>>))
               ELSE /\ task' = [pc |-> "pick", args |-> args, zone_key |-> zone_key,
                                bridge_at_call |-> BRIDGE,
                                settings_at_call |-> SETTINGS]
                    /\ req' = "move_object"
                    /\ result' = Pending
                    /\ calls' = <<>>
                    /\ UNCHANGED <<BRIDGE, SETTINGS, SETTINGS_FILE, armed>>

\* p1 = BRIDGE.pick(object_id); return p1's error if it failed
MoveObjectPick ==
    /\ task.pc = "pick"
    /\ LET object_id == StrOf(task.args.object_id)
           p1        == pick(BRIDGE, object_id, DefaultGripStrength)
           op        == Call("pick", Some(object_id), BRIDGE, p1.res)
       IN  /\ BRIDGE' = p1.b
           /\ calls' = <<op>>
           /\ armed' = ArmedStep(armed, op)
           /\ IF p1.res.ok
              THEN /\ task' = [task EXCEPT !.pc = "place"]
                   /\ UNCHANGED result
              ELSE /\ task' = NoTask
                   /\ result' = ToolCallResponse(FALSE, None, p1.res.error)
           /\ UNCHANGED <<SETTINGS, SETTINGS_FILE, req>>

\* p2 = BRIDGE.place(zone_key, pose); persist the new pose if it succeeded;
\* return p2
MoveObjectPlace ==
    /\ task.pc = "place"
    /\ LET object_id == StrOf(task.args.object_id)
           p2        == place(BRIDGE, task.zone_key, task.args.pose)
           new_pose  == NewPose(SETTINGS, task.zone_key, task.args.pose)
           op        == Call("place", None, BRIDGE, p2.res)
           s2        == IF p2.res.ok
                        THEN SetObjectPose(SETTINGS, object_id, new_pose)
                        ELSE SETTINGS
       IN  /\ BRIDGE' = p2.b
           /\ SETTINGS' = s2
           /\ SETTINGS_FILE' = IF p2.res.ok THEN s2 ELSE SETTINGS_FILE
           /\ calls' = Append(calls, op)
           /\ armed' = ArmedStep(armed, op)
           /\ result' = IF p2.res.ok
                        THEN ToolCallResponse(TRUE,
                                 Some([p2.res EXCEPT !.new_pose = Some(new_pose)]),
                                 p2.res.error)
                        ELSE ToolCallResponse(FALSE, Some(p2.res), p2.res.error)
           /\ task' = NoTask
           /\ UNCHANGED req

\* any other request, handled from start to return once the loop is idle
\* (the wait is part of each request's step)
ServeOther ==
    \/ GetConfig
    \/ SetSpeed
    \/ Stop
    \/ Pick
    \/ Place
    \/ QueryStatus
    \/ UnknownTool
    \/ UpsertZone
    \/ UpsertObject

NextC ==
    \/ MoveObjectBegin
    \/ MoveObjectPick
    \/ MoveObjectPlace
    \/ ServeOther

SpecC == Init /\ [][NextC]_vars

\* C18: within one move_object the pick and the place are consecutive steps
\* of the server, whatever requests and upserts are waiting: when the place
\* is about to run, the last handler that ran is this move_object, the only
\* bridge operation since its start is its own successful pick, the bridge
\* is exactly as that pick left it and the configuration is as it was at the
\* call; so the place completes the call exactly as the handler run in one
\* piece from the state at the call would.
C18_MoveObjectPickThenPlaceUninterrupted ==
    task.pc = "place" =>
        LET object_id == StrOf(task.args.object_id)
            p1    == pick(task.bridge_at_call, object_id, DefaultGripStrength)
            p2    == place(BRIDGE, task.zone_key, task.args.pose)
            whole == tool_call_move_object(task.bridge_at_call,
                                           task.settings_at_call, task.args)
        IN  /\ req = "move_object"
            /\ result = Pending
            /\ Len(calls) = 1 /\ calls[1].op = "pick" /\ calls[1].ok
            /\ calls[1].object_id = Some(object_id)
            /\ BRIDGE = p1.b
            /\ BRIDGE.held_object = Some(object_id)
            /\ SETTINGS = task.settings_at_call
            /\ p2.b = whole.BRIDGE
            /\ p2.res.ok = whole.response.ok

\* a move_object to a configured zone has done its pick and not yet its
\* place, on a bridge that was holding another object when it was called
C18_Witness ==
    /\ task.pc = "place"
    /\ ~IsNone(task.zone_key)
    /\ ~IsNone(task.bridge_at_call.held_object)
    /\ task.bridge_at_call.held_object # BRIDGE.held_object
    /\ BRIDGE.last_action = STR_pick_ \o StrOf(task.args.object_id)

---------------------------------------------------------------------------
(* Properties of the dispatcher and the bridge, checked under Spec. *)

\* C21: on a running bridge a move_object with neither target nor pose picks
\* the object and then fails at the place with target_or_pose_required: that
\* failure is the overall result, nothing is persisted, and the bridge is
\* left holding the object with last_action recording the pick.  It is the
\* only way a move_object fails after its pick has succeeded.
C21_FailedPlaceLeavesObjectHeld ==
    /\ ~BRIDGE.stopped =>
          \A a \in MoveObjectArgs \cup MoveObjectArgsNoId :
              (IsNone(a.target) /\ IsNone(a.pose)) =>
                  LET out == Out("move_object", a)
                      o   == StrOf(a.object_id)
                  IN  /\ Failed(out, "target_or_pose_required")
                      /\ Len(out.calls) = 2
                      /\ out.calls[1].op = "pick" /\ out.calls[1].ok
                      /\ out.calls[2].op = "place" /\ ~out.calls[2].ok
                      /\ out.SETTINGS = SETTINGS /\ ~out.saved
                      /\ out.BRIDGE.held_object = Some(o)
                      /\ out.BRIDGE.last_action = STR_pick_ \o o
                      /\ ~out.BRIDGE.stopped
    /\ \A a \in MoveObjectArgs \cup MoveObjectArgsNoId :
          LET out == Out("move_object", a)
          IN  (Len(out.calls) = 2 /\ ~out.response.ok) =>
                  /\ IsNone(a.target) /\ IsNone(a.pose)
                  /\ Failed(out, "target_or_pose_required")

\* a move_object has just failed at its place for want of target and pose,
\* after picking, on a bridge that held nothing before; the object has a
\* persisted pose, which the call left alone
C21_Witness ==
    /\ req = "move_object"
    /\ result.error = Some("target_or_pose_required")
    /\ Len(calls) = 2
    /\ calls[1].op = "pick" /\ calls[1].ok /\ IsNone(calls[1].held_before)
    /\ calls[2].op = "place" /\ ~calls[2].ok
    /\ BRIDGE.held_object = calls[1].object_id
    /\ BRIDGE.held_object = Some(S_r)
    /\ S_r \in DOMAIN SETTINGS.objects

---------------------------------------------------------------------------
(* Further properties of zone resolution, checked under SpecZ. *)

\* C22 (as claimed): two references with the same canonical form resolve to
\* the same result against every zone table, whatever the order of its keys.
C22_SameCanonicalFormSameResult ==
    \A r1 \in RefsZ, r2 \in RefsZ :
        CanonicalOf(r1) = CanonicalOf(r2) =>
            resolve_zone_key(SETTINGS, r1) = resolve_zone_key(SETTINGS, r2)

\* C22 (amended): two references with the same canonical form resolve to
\* the same result against every zone table when neither is an ordinal in
\* range (optional "zone" + digits n, 1 <= n <= number of zones): both
\* resolve to the first key with their canonical form, or to no zone.  An
\* ordinal in range resolves to the n-th zone whatever its canonical form:
\* two of them resolve to the same zone exactly when their numbers are the
\* same, and when only one of the two references is an ordinal in range, it
\* resolves to the n-th zone and the other to the first key with their
\* canonical form, or to no zone.  An ordinal of more than 4300 digits is
\* resolved to nothing: the resolution fails with a ValueError.
C22_SameCanonicalFormSameResultApartFromOrdinals ==
    LET keys   == SETTINGS.zones.keys
        in(r)  == InRangeOrdinal(r, Len(keys))
        res(r) == resolve_zone_key(SETTINGS, r)
    IN  \A r1 \in RefsZ, r2 \in RefsZ :
            CanonicalOf(r1) = CanonicalOf(r2) =>
                IF r1 \in OverlongRefs \/ r2 \in OverlongRefs
                THEN \A r \in {r1, r2} : res(r) = ExpectedKey(r)
                ELSE IF ~in(r1) /\ ~in(r2)
                THEN /\ res(r1) = res(r2)
                     /\ res(r1) = FirstKeyWithCanonicalForm(r1)
                ELSE IF in(r1) /\ in(r2)
                THEN /\ res(r1) = Some(keys[OrdinalOf(r1)])
                     /\ res(r2) = Some(keys[OrdinalOf(r2)])
                     /\ res(r1) = res(r2) <=> OrdinalOf(r1) = OrdinalOf(r2)
                ELSE \A r \in {r1, r2} :
                        res(r) = IF in(r) THEN Some(keys[OrdinalOf(r)])
                                 ELSE FirstKeyWithCanonicalForm(r1)

\* the Arabic-Indic digit 2 was just resolved to the second of the two
\* zones zone2, zone1, the Arabic-Indic digit 1 of the same canonical form
\* resolves to the first; "zone1", an ordinal, resolves to the first zone
\* and "Zone-1", of the same canonical form, to the key zone1
C22_Witness ==
    /\ req = "resolve_zone_key"
    /\ result.ref = <<"U+0662">>
    /\ SETTINGS.zones.keys = <<K_zone2, K_zone1>>
    /\ result.key = Some(K_zone1)
    /\ CanonicalOf(<<"U+0661">>) = CanonicalOf(<<"U+0662">>)
    /\ resolve_zone_key(SETTINGS, <<"U+0661">>) = Some(K_zone2)
    /\ resolve_zone_key(SETTINGS, K_zone1) = Some(K_zone2)
    /\ resolve_zone_key(SETTINGS, <<"Z","o","n","e","-","1">>) = Some(K_zone1)

\* C29 (as claimed): a reference of the ordinal shape whose number is 0 or
\* greater than the number of zones is matched by canonical name: it
\* resolves to the first zone key whose canonical form equals the
\* reference's, and to no zone only when there is none.
C29_OutOfRangeOrdinalFallsThrough ==
    \A r \in OrdinalRefs :
        ~(1 <= r[2] /\ r[2] <= Len(SETTINGS.zones.keys)) =>
            resolve_zone_key(SETTINGS, r[1]) = FirstKeyWithCanonicalForm(r[1])

---------------------------------------------------------------------------
(* Further properties of the dispatcher and the bridge, checked under Spec. *)

HasPrefix(s, p) == Len(s) >= Len(p) /\ SubSeq(s, 1, Len(p)) = p

\* the requests that invoke a bridge action
BridgeRequests ==
    {r \in Requests : r[1] \in {"set_speed", "stop", "pick", "place", "move_object"}}

\* last_action names the action of the request: move_object ends with a place
NamesAction(last_action, name) ==
    CASE name = "set_speed"   -> HasPrefix(last_action, STR_set_speed_)
      [] name = "stop"        -> last_action = STR_stop
      [] name = "pick"        -> HasPrefix(last_action, STR_pick_)
      [] name = "place"       -> HasPrefix(last_action, STR_place_)
      [] name = "move_object" -> HasPrefix(last_action, STR_place_)

\* what last_action says of a successful place at target: the zone key the
\* target names, pose without a target or when that key is the empty string
PlacedAt(target) ==
    IF IsNone(target) \/ ExpectedZone(Get(target)) = Some(S_empty) THEN STR_pose
    ELSE Get(ExpectedZone(Get(target)))

\* C23 (as claimed): after any set_speed, stop, pick, place or move_object
\* handled by the dispatcher, whether it succeeded or failed, last_action
\* names that action.
C23_LastActionNamesEveryAction ==
    \A r \in BridgeRequests :
        LET out == Out(r[1], r[2])
        IN  ~out.response.raised => NamesAction(out.BRIDGE.last_action, r[1])

\* C23 (amended): last_action is overwritten by every bridge operation that
\* succeeds and by no other: after a successful set_speed it is set_speed:
\* with the scale to two decimals, after stop it is stop, after a successful
\* pick it is pick: with the object id, after a successful place or
\* move_object it is place: with the zone key the target resolved to, or
\* with pose when no target was given or that key is the empty string; a
\* request that fails leaves it as it was, except a move_object failing at
\* its place, which leaves it naming the pick.
C23_LastActionNamesLastSuccessfulOperation ==
    \A r \in BridgeRequests :
        LET out == Out(r[1], r[2])
            la  == out.BRIDGE.last_action
        IN  IF out.response.ok
            THEN /\ NamesAction(la, r[1])
                 /\ r[1] = "set_speed" =>
                        la = STR_set_speed_ \o Format2f(Get(r[2].scale).v)
                 /\ r[1] = "pick" => la = STR_pick_ \o StrOf(r[2].object_id)
                 /\ r[1] \in {"place", "move_object"} =>
                        la = STR_place_ \o PlacedAt(r[2].target)
            ELSE IF r[1] = "move_object" /\ Len(out.calls) = 2
            THEN la = STR_pick_ \o StrOf(r[2].object_id)
            ELSE la = BRIDGE.last_action

\* a pick has just been refused on a stopped bridge whose speed was set
\* after the stop: last_action still names the set_speed
C23_Witness ==
    /\ req = "pick"
    /\ ~result.ok
    /\ result.error = Some("stopped")
    /\ Len(calls) = 1 /\ calls[1].op = "pick" /\ ~calls[1].ok
    /\ BRIDGE.stopped
    /\ BRIDGE.last_action = STR_set_speed_ \o Format2f(MaxScale)

\* C24: the bridge's zone table is the configuration's zone table, key for
\* key and in the same order, at startup and after every zone upsert and
\* dispatcher request; so a target the dispatcher resolves is never rejected
\* by the bridge's place: unknown_zone is answered only by the dispatcher,
\* before any bridge operation.
C24_BridgeZonesFollowConfiguration ==
    /\ BRIDGE.zones.keys = SETTINGS.zones.keys
    /\ \A k \in DOMAIN BRIDGE.zones.val : HasKey(SETTINGS.zones, k)
    /\ \A i \in 1..Len(SETTINGS.zones.keys) :
          HasKey(BRIDGE.zones, SETTINGS.zones.keys[i])
    /\ \A z \in ZoneUpserts :
          LET out == upsert_zone(BRIDGE, SETTINGS, z[1], z[2])
          IN  /\ out.BRIDGE.zones.keys = out.SETTINGS.zones.keys
              /\ HasKey(out.BRIDGE.zones, z[1])
    /\ \A r \in Requests :
          LET out == Out(r[1], r[2])
          IN  out.response.error = Some("unknown_zone") => out.calls = <<>>

\* a second zone has just been upserted, after the bridge has acted, and
\* the bridge knows both zones
C24_Witness ==
    /\ req = "upsert_zone"
    /\ Len(SETTINGS.zones.keys) = 2
    /\ BRIDGE.zones = SETTINGS.zones
    /\ BRIDGE.last_action # STR_idle

\* C25: on a stopped bridge set_speed with a scale in [0.1, 1.0] succeeds,
\* sets speed_scale to the scale and last_action to the set_speed, and
\* leaves stopped = true, held_object = none and the configuration as they
\* were.
C25_SetSpeedWhileStopped ==
    BRIDGE.stopped =>
        \A a \in SetSpeedArgs :
            (CanFloat(a.scale) /\ InBand(Get(a.scale).v)) =>
                LET out == Out("set_speed", a)
                    v   == Get(a.scale).v
                IN  /\ ~out.response.raised /\ out.response.ok
                    /\ out.BRIDGE.speed_scale = v
                    /\ out.BRIDGE.last_action = STR_set_speed_ \o Format2f(v)
                    /\ out.BRIDGE.stopped
                    /\ out.BRIDGE.held_object = None
                    /\ out.BRIDGE.zones = BRIDGE.zones
                    /\ out.SETTINGS = SETTINGS /\ ~out.saved

\* a set_speed has just succeeded on a stopped bridge and changed its speed
C25_Witness ==
    /\ req = "set_speed"
    /\ result.ok
    /\ Len(calls) = 1 /\ calls[1].op = "set_speed" /\ calls[1].ok
    /\ BRIDGE.stopped
    /\ IsNone(BRIDGE.held_object)
    /\ BRIDGE.speed_scale = MinScale
    /\ BRIDGE.last_action = STR_set_speed_ \o Format2f(MinScale)

\* the targets and poses a place of the bridge may be called with
BridgePlaceCalls ==
    Optional({S_a, S_empty, <<"x">>}) \X Optional(PoseArgValues)

\* C28: in every reachable state a stopped bridge holds nothing; so on a
\* stopped bridge the bridge's place answers stopped whatever its arguments,
\* and no place or move_object request is answered no_object_held: whenever
\* the request reaches the bridge the answer is stopped.
C28_StoppedBridgeHoldsNothing ==
    BRIDGE.stopped =>
        /\ IsNone(BRIDGE.held_object)
        /\ ~armed
        /\ \A c \in BridgePlaceCalls :
              LET p == place(BRIDGE, c[1], c[2])
              IN  p.res = ResError("stopped") /\ p.b = BRIDGE
        /\ \A a \in PlaceArgs :
              LET out == Out("place", a)
              IN  /\ out.response.error # Some("no_object_held")
                  /\ out.calls # <<>> => Failed(out, "stopped")

\* a stop has just been handled on a bridge that was holding an object: the
\* bridge is stopped and holds nothing
C28_Witness ==
    /\ req = "stop"
    /\ Len(calls) = 1 /\ calls[1].op = "stop"
    /\ calls[1].held_before = Some(S_r)
    /\ BRIDGE.stopped
    /\ IsNone(BRIDGE.held_object)
    /\ S_r \in DOMAIN SETTINGS.objects

---------------------------------------------------------------------------
(* The /chat handler (main.py, chat).  A text that is empty once stripped   *)
(* is refused.  With an API key in the environment the text goes to the    *)
(* language model, whose answer is a list of tool calls that chat executes *)
(* itself, one after the other, before it returns; without a key the text  *)
(* is matched against two fixed commands.  The language model is outside   *)
(* the program: its answer is an input.  Whether a key is set is the       *)
(* environment's choice at every request.                                  *)

\* an exception raised while a tool call is executed
PythonException == [raised |-> TRUE, ok |-> FALSE, result |-> None, error |-> None]

\* the entry of tool_results for a bridge result res
ToolResult(res) == ToolCallResponse(res.ok, Some(res), res.error)

\* chat, one pass of the loop over msg.tool_calls: the if/elif chain on name
chat_execute_tool(b, settings, name, args) ==
    CASE name = "set_speed" ->
            IF ~CanFloat(args.scale)
            THEN Outcome(b, settings, FALSE, PythonException, <<>>)
            ELSE LET r == set_speed(b, Get(args.scale).v)
                 IN  Outcome(r.b, settings, FALSE, ToolResult(r.res),
                             <<Call("set_speed", None, b, r.res)>>)
      [] name = "stop" ->
            LET r == stop(b)
            IN  Outcome(r.b, settings, FALSE, ToolResult(r.res),
                        <<Call("stop", None, b, r.res)>>)
      [] name = "pick" ->
            LET object_id == StrOf(args.object_id)
            IN  IF ~IsNone(args.grip_strength) /\ ~CanFloat(args.grip_strength)
                THEN Outcome(b, settings, FALSE, PythonException, <<>>)
                ELSE LET r == pick(b, object_id,
                                   IF IsNone(args.grip_strength)
                                   THEN DefaultGripStrength
                                   ELSE Get(args.grip_strength).v)
                     IN  Outcome(r.b, settings, FALSE, ToolResult(r.res),
                                 <<Call("pick", Some(object_id), b, r.res)>>)
      [] name = "place" ->
            LET target   == args.target
                pose     == args.pose
                zone_key == ZoneKeyOf(settings, target)
            IN  IF zone_key = ValueError
                THEN Outcome(b, settings, FALSE, PythonException, <<>>)
                ELSE IF ~IsNone(target) /\ IsNone(zone_key)
                THEN Outcome(b, settings, FALSE,
                             ToolResult(ResError("unknown_zone")), <<>>)
                ELSE LET r        == place(b, zone_key, pose)
                         persist  == r.res.ok /\ ~IsNone(r.res.placed_object)
                                        /\ Len(Get(r.res.placed_object)) > 0
                         new_pose == NewPose(settings, zone_key, pose)
                     IN  Outcome(r.b,
                                 IF persist
                                 THEN SetObjectPose(settings,
                                          Get(r.res.placed_object), new_pose)
                                 ELSE settings,
                                 persist, ToolResult(r.res),
                                 <<Call("place", None, b, r.res)>>)
      [] name = "move_object" ->
            LET object_id == StrOf(args.object_id)
                target    == args.target
                pose      == args.pose
                zone_key  == ZoneKeyOf(settings, target)
            IN  IF zone_key = ValueError
                THEN Outcome(b, settings, FALSE, PythonException, <<>>)
                ELSE IF ~IsNone(target) /\ IsNone(zone_key)
                THEN Outcome(b, settings, FALSE,
                             ToolResult(ResError("unknown_zone")), <<>>)
                ELSE LET p1 == pick(b, object_id, DefaultGripStrength)
                         c1 == Call("pick", Some(object_id), b, p1.res)
                     IN  IF ~p1.res.ok
                         THEN Outcome(p1.b, settings, FALSE, ToolResult(p1.res), <<c1>>)
                         ELSE LET p2       == place(p1.b, zone_key, pose)
                                  new_pose == NewPose(settings, zone_key, pose)
                                  c2       == Call("place", None, p1.b, p2.res)
                              IN  IF p2.res.ok
                                  THEN Outcome(p2.b,
                                           SetObjectPose(settings, object_id, new_pose),
                                           TRUE,
                                           ToolResult([p2.res EXCEPT
                                               !.new_pose = Some(new_pose)]),
                                           <<c1, c2>>)
                                  ELSE Outcome(p2.b, settings, FALSE,
                                               ToolResult(p2.res), <<c1, c2>>)
      [] name = "query_status" ->
            Outcome(b, settings, FALSE,
                    ToolCallResponse(TRUE, Some(query_status(b)), None), <<>>)
      [] OTHER ->
            Outcome(b, settings, FALSE, ToolResult(ResError("unknown_tool")), <<>>)

\* the response of chat: ok, an error kind, and the tool results
ChatResponse(ok, error, tool_results) ==
    [raised |-> FALSE, ok |-> ok, result |-> Some(tool_results), error |-> error]

\* the entry of tool_results for an executed tool call
ToolResultEntry(name, response) ==
    [name |-> name, ok |-> response.ok, error |-> response.error]

\* a response of chat that carries an error kind and no tool results
ChatError(kind) ==
    [raised |-> FALSE, ok |-> FALSE, result |-> None, error |-> Some(kind)]

\* the loop over msg.tool_calls before its first pass
LoopStart(b, settings) ==
    [BRIDGE |-> b, SETTINGS |-> settings, saved |-> FALSE, raised |-> FALSE,
     tool_results |-> <<>>, calls |-> <<>>]

\* The loop over msg.tool_calls, loop being what the passes so far have made:
\* each tool call is executed on the bridge and the settings the call before
\* it left, and its result is appended to tool_results; an exception raised
\* in a pass ends the loop, what the earlier passes did stays
RECURSIVE chat_tool_calls(_, _)
chat_after_tool(loop, name, out, rest) ==
    IF out.response.raised
    THEN [loop EXCEPT !.raised = TRUE]
    ELSE chat_tool_calls(
             [BRIDGE       |-> out.BRIDGE,
              SETTINGS     |-> out.SETTINGS,
              saved        |-> loop.saved \/ out.saved,
              raised       |-> FALSE,
              tool_results |-> Append(loop.tool_results,
                                      ToolResultEntry(name, out.response)),
              calls        |-> loop.calls \o out.calls],
             rest)

chat_tool_calls(loop, tool_calls) ==
    IF Len(tool_calls) = 0 THEN loop
    ELSE chat_after_tool(loop, tool_calls[1][1],
                         chat_execute_tool(loop.BRIDGE, loop.SETTINGS,
                                           tool_calls[1][1], tool_calls[1][2]),
                         Tail(tool_calls))

\* chat after the loop: the loop is followed by a second request to the
\* language model; the handler's except clause answers llm_error both to an
\* exception raised by a tool call and to one raised by that second request,
\* which comes after the tool calls have run
chat_llm_response(loop, follow_raises) ==
    Outcome(loop.BRIDGE, loop.SETTINGS, loop.saved,
            IF loop.raised \/ follow_raises
            THEN ChatError("llm_error")
            ELSE ChatResponse(TRUE, None, loop.tool_results),
            loop.calls)

\* chat with a key set: first_raises tells whether the client or the first
\* request to the language model raises, tool_calls is the list of tool calls
\* of the model's answer, empty when it answers in text, follow_raises tells
\* whether the second request raises
chat_llm(b, settings, first_raises, tool_calls, follow_raises) ==
    IF first_raises
    THEN Outcome(b, settings, FALSE, ChatError("llm_error"), <<>>)
    ELSE IF Len(tool_calls) = 0
    THEN Outcome(b, settings, FALSE, ChatResponse(TRUE, None, <<>>), <<>>)
    ELSE chat_llm_response(chat_tool_calls(LoopStart(b, settings), tool_calls),
                           follow_raises)

STR_move == <<"m","o","v","e">>

STR_status == <<"s","t","a","t","u","s">>

\* the class of the target group of the naive pattern: a-z, 0-9, _ and -
TargetChars == AsciiLowerSet \cup DigitSet \cup {"_", "-"}

IsTargetChar(c) == c \in TargetChars

\* the class of the object group: the same with the space
IsObjectChar(c) == IsTargetChar(c) \/ c = " "

\* the characters that are their own lower case for the naive patterns
PatternChars == TargetChars \cup SpaceChars

\* the character of c.lower() as the naive patterns see it: a character of
\* their classes and a whitespace character are their own lower case, A-Z
\* give a-z, U+212A gives k; the lower case of every other character has a
\* character that no class of the patterns holds, written ""
LowerInPattern(c) ==
    IF c \in PatternChars THEN c
    ELSE IF IsAsciiUpper(c) THEN AsciiLower(c)
    ELSE IF c = "U+212A" THEN "k"
    ELSE ""

\* text.lower(), as the naive patterns see it
LowerText(text) ==
    IF text \in Seq(PatternChars) THEN text
    ELSE [i \in 1..Len(text) |-> LowerInPattern(text[i])]

\* The ways the middle of the naive pattern, whitespace, the object group,
\* whitespace, matches all of s: <<w, x>> when the first w characters are
\* whitespace, the last x are, and what lies between is the object group
MoveMiddles(s) ==
    { c \in (1..(FirstNot(s, SpaceChars) - 1)) \X (1..(Len(s) - LastNot(s, SpaceChars))) :
        /\ c[1] + c[2] < Len(s)
        /\ \A i \in (c[1] + 1)..(Len(s) - c[2]) : IsObjectChar(s[i]) }

\* the way the pattern takes: the whitespace before the object group is
\* greedy, then the group is
MoveMiddle(s) ==
    CHOOSE c \in MoveMiddles(s) :
        \A d \in MoveMiddles(s) :
            c[1] > d[1] \/ (c[1] = d[1] /\ c[2] <= d[2])

\* group 1 of the match with spaces replaced by underscores, and group 2
MoveGroups(s, c, target) ==
    Some([object_id |-> [i \in 1..(Len(s) - c[1] - c[2]) |->
                            IF s[c[1] + i] = " " THEN "_" ELSE s[c[1] + i]],
          target    |-> target])

\* the match from the word to on: t[k] is the last character before the
\* whitespace that precedes the target group
MoveMatchAt(t, k, target) ==
    IF k < 2 \/ t[k] # "o" \/ t[k - 1] # "t"
       \/ MoveMiddles(SubSeq(t, 5, k - 2)) = {}
    THEN None
    ELSE MoveGroups(SubSeq(t, 5, k - 2), MoveMiddle(SubSeq(t, 5, k - 2)), target)

\* the match from the target group on: t[e] is the last character of t
\* outside the class of the target group, which has to be whitespace; the
\* target group is all that follows it
MoveMatchFrom(t, e) ==
    IF e = 0 \/ e = Len(t) \/ ~IsSpace(t[e])
    THEN None
    ELSE MoveMatchAt(t, LastNot(SubSeq(t, 1, e), SpaceChars),
                     SubSeq(t, e + 1, Len(t)))

\* The match of the naive pattern at the start of t: the word move,
\* whitespace, the object group, whitespace, the word to, whitespace, the
\* target group, the end of t.  None when there is no match.  The end of t
\* is also matched before a last line feed.
NaiveMoveMatchToEnd(t) ==
    IF Len(t) < 4 \/ SubSeq(t, 1, 4) # STR_move THEN None
    ELSE MoveMatchFrom(t, LastNot(t, TargetChars))

NaiveMoveMatch(t) ==
    IF Len(t) > 0 /\ t[Len(t)] = "\n" /\ ~IsNone(NaiveMoveMatchToEnd(SubSeq(t, 1, Len(t) - 1)))
    THEN NaiveMoveMatchToEnd(SubSeq(t, 1, Len(t) - 1))
    ELSE NaiveMoveMatchToEnd(t)

\* chat without a key, text of the form move OBJECT to ZONE: object_id and
\* target are the two groups of the pattern, spaces in the first replaced
\* by underscores.  Nothing catches a ValueError raised by resolve_zone_key:
\* it leaves the handler
chat_move_resolved(b, settings, object_id, zone_key) ==
    IF zone_key = ValueError
    THEN Outcome(b, settings, FALSE, PythonException, <<>>)
    ELSE IF IsNone(zone_key)
    THEN Outcome(b, settings, FALSE, ChatError("unknown_zone"), <<>>)
    ELSE LET p1 == pick(b, object_id, DefaultGripStrength)
             c1 == Call("pick", Some(object_id), b, p1.res)
         IN  IF ~p1.res.ok
             THEN Outcome(p1.b, settings, FALSE,
                          ChatError(Get(p1.res.error)), <<c1>>)
             ELSE LET p2 == place(p1.b, zone_key, None)
                      c2 == Call("place", None, p1.b, p2.res)
                  IN  Outcome(p2.b, settings, FALSE,
                              ChatResponse(p2.res.ok, None,
                                  <<[name |-> "pick", ok |-> p1.res.ok,
                                     error |-> p1.res.error],
                                    [name |-> "place", ok |-> p2.res.ok,
                                     error |-> p2.res.error]>>),
                              <<c1, c2>>)

chat_naive_move(b, settings, object_id, target) ==
    chat_move_resolved(b, settings, object_id, resolve_zone_key(settings, target))

\* chat without a key, text status
chat_naive_status(b, settings) ==
    Outcome(b, settings, FALSE,
            ChatResponse(TRUE, None,
                <<[name |-> "query_status", ok |-> TRUE, error |-> None]>>),
            <<>>)

\* chat without a key, a text that is neither command: the answer names the
\* two commands
chat_naive_other(b, settings) ==
    Outcome(b, settings, FALSE, ChatResponse(FALSE, None, <<>>), <<>>)

\* chat without a key, from the match m of the move pattern on the
\* lower-cased text on
chat_naive_matched(b, settings, lowered, m) ==
    IF ~IsNone(m)
    THEN chat_naive_move(b, settings, Get(m).object_id, Get(m).target)
    ELSE IF lowered = STR_status
    THEN chat_naive_status(b, settings)
    ELSE chat_naive_other(b, settings)

\* chat without a key: the naive fallback on the stripped text
chat_naive_lowered(b, settings, lowered) ==
    chat_naive_matched(b, settings, lowered, NaiveMoveMatch(lowered))

chat_naive(b, settings, text) == chat_naive_lowered(b, settings, LowerText(text))

\* chat from the stripped text on: use_llm tells whether the environment
\* has an API key
chat_text(b, settings, text, use_llm, first_raises, tool_calls, follow_raises) ==
    IF Len(text) = 0
    THEN Outcome(b, settings, FALSE, ChatError("empty_text"), <<>>)
    ELSE IF use_llm
    THEN chat_llm(b, settings, first_raises, tool_calls, follow_raises)
    ELSE chat_naive(b, settings, text)

\* chat: the handler of POST /chat for the payload's text
chat(b, settings, text, use_llm, first_raises, tool_calls, follow_raises) ==
    chat_text(b, settings, Strip(text), use_llm, first_raises, tool_calls,
              follow_raises)

\* the request bodies of the chat actions below: a text for each branch
STR_move_r_to_ == <<"m","o","v","e"," ","r"," ","t","o"," ">>

\* texts that are empty once stripped
EmptyTexts == {<<>>, <<" ", "\t">>}

\* texts of the form move OBJECT to ZONE: capitals, more whitespace than one
\* space, a zone given by name and one no zone answers to, and an ordinal
\* that int() does not convert
MoveTexts ==
    { STR_move_r_to_ \o <<"1">>,
      <<"M","o","v","e","\t","r"," "," ","T","O"," ","A">>,
      STR_move_r_to_ \o <<"x">>,
      STR_move_r_to_ \o LongDigits }

StatusTexts == {STR_status, <<" ","S","t","a","t","u","s">>}

\* texts that are neither command: the naive pattern wants the text to end
\* with the target, and status alone
OtherTexts ==
    { <<"h","i">>,
      STR_move_r_to_ \o <<"1"," ","n","o","w">>,
      STR_status \o <<"?">> }

\* with a key the text goes to the language model and the handler reads it
\* no further
LLMTexts == {<<"h","i">>}

\* the argument maps of the tool calls the language model may ask for
ChatSetSpeedArgs ==
    {[NoArgs EXCEPT !.scale = s] : s \in {None, Some(JNum(MaxScale))}}

ChatPickArgs ==
    {[NoArgs EXCEPT !.object_id = Some(S_r), !.grip_strength = g] :
        g \in {None, Some(JText)}}

ChatPlaceArgs ==
    {[NoArgs EXCEPT !.target = t, !.pose = p] :
        t \in Optional({<<"1">>, <<"x">>}), p \in Optional(PoseArgValues)}
    \cup {[NoArgs EXCEPT !.target = Some(LongDigits)]}

ChatMoveObjectArgs ==
    {[NoArgs EXCEPT !.object_id = Some(S_r), !.target = t] :
        t \in Optional({<<"1">>, LongDigits})}

\* the tool calls the language model may ask for
ChatRequests ==
    ({"get_config", "stop", "query_status"} \cup UnknownNames) \X {NoArgs}
    \cup ({"set_speed"} \X ChatSetSpeedArgs)
    \cup ({"pick"} \X ChatPickArgs)
    \cup ({"place"} \X ChatPlaceArgs)
    \cup ({"move_object"} \X ChatMoveObjectArgs)

\* the first and the second tool call of an answer with two
ChatFirstRequests ==
    { <<"pick", [NoArgs EXCEPT !.object_id = Some(S_r)]>>,
      <<"stop", NoArgs>>,
      <<"set_speed", NoArgs>> }

ChatSecondRequests ==
    { <<"place", [NoArgs EXCEPT !.target = Some(<<"1">>)]>>,
      <<"stop", NoArgs>>,
      <<"pick", [NoArgs EXCEPT !.object_id = Some(S_r),
                               !.grip_strength = Some(JText)]>>,
      <<"move_object", [NoArgs EXCEPT !.object_id = Some(S_r),
                                      !.target = Some(LongDigits)]>> }

\* the lists of tool calls of an answer of the language model: one call, or
\* a first and a second
ChatAnswers ==
    {<<tc>> : tc \in ChatRequests}
    \cup {<<tc1, tc2>> : tc1 \in ChatFirstRequests, tc2 \in ChatSecondRequests}

\* the answers after which the second request to the language model may
\* raise: a pick, a pick and a place, a call that is refused
FollowedAnswers ==
    { << <<"pick", [NoArgs EXCEPT !.object_id = Some(S_r)]>> >>,
      << <<"pick", [NoArgs EXCEPT !.object_id = Some(S_r)]>>,
         <<"place", [NoArgs EXCEPT !.target = Some(<<"1">>)]>> >>,
      << <<"place", [NoArgs EXCEPT !.target = Some(<<"x">>)]>> >> }

\* what the naive pattern can capture: lower-case, non-empty groups
NaiveObjects == {S_r}

NaiveTargets == {<<"1">>, S_a, <<"x">>, LongDigits}

HandleChat(out) == Apply("chat", out)

\* chat with a text that is empty once stripped, with or without a key
ChatEmptyText ==
    \E text \in EmptyTexts, use_llm \in BOOLEAN :
        HandleChat(chat(BRIDGE, SETTINGS, text, use_llm, FALSE, <<>>, FALSE))

\* chat with a key set, the client or the first request to the language
\* model raising: no tool call has run
ChatLLMFails ==
    \E text \in LLMTexts :
        HandleChat(chat(BRIDGE, SETTINGS, text, TRUE, TRUE, <<>>, FALSE))

\* chat with a key set and the model answering in text, without tool calls
ChatLLMText ==
    \E text \in LLMTexts :
        HandleChat(chat(BRIDGE, SETTINGS, text, TRUE, FALSE, <<>>, FALSE))

\* chat with a key set and the model asking for tool calls, which the
\* handler runs one after the other before it returns; the second request to
\* the language model answers
ChatLLM ==
    \E text \in LLMTexts, tool_calls \in ChatAnswers :
        HandleChat(chat(BRIDGE, SETTINGS, text, TRUE, FALSE, tool_calls, FALSE))

\* the same with the second request to the language model raising, after
\* the tool calls have run
ChatLLMFollowUpFails ==
    \E text \in LLMTexts, tool_calls \in FollowedAnswers :
        HandleChat(chat(BRIDGE, SETTINGS, text, TRUE, FALSE, tool_calls, TRUE))

\* chat without a key
ChatNaiveMove ==
    \E text \in MoveTexts :
        HandleChat(chat(BRIDGE, SETTINGS, text, FALSE, FALSE, <<>>, FALSE))

ChatNaiveStatus ==
    \E text \in StatusTexts :
        HandleChat(chat(BRIDGE, SETTINGS, text, FALSE, FALSE, <<>>, FALSE))

ChatNaiveOther ==
    \E text \in OtherTexts :
        HandleChat(chat(BRIDGE, SETTINGS, text, FALSE, FALSE, <<>>, FALSE))

NextChat ==
    \/ UpsertZone
    \/ UpsertObject
    \/ ChatEmptyText
    \/ ChatLLMFails
    \/ ChatLLM
    \/ ChatLLMFollowUpFails
    \/ ChatLLMText
    \/ ChatNaiveMove
    \/ ChatNaiveStatus
    \/ ChatNaiveOther

SpecChat == Init /\ [][NextChat]_vars

\* cli_chat.py, naive_parse_and_call on a text of the form move OBJECT to
\* ZONE: the two groups go to /tool-call as a move_object request; when the
\* server raises HTTPException 400, raise_for_status raises in the client
naive_parse_and_call_move(b, settings, object_id, target) ==
    tool_call(b, settings, "move_object",
              [NoArgs EXCEPT !.object_id = Some(object_id), !.target = Some(target)])

---------------------------------------------------------------------------
(* Properties of the /chat handler, checked under SpecChat. *)

\* the advertised vocabulary: the names of get_tool_schemas
Vocabulary ==
    {"get_config", "set_speed", "stop", "pick", "place", "move_object",
     "query_status"}

\* C26 (as claimed): for every action name of the advertised vocabulary,
\* get_config included, every argument map and every state, the tool
\* execution of the /chat loop and /tool-call give the same ok and error,
\* the same bridge state and the same persisted object poses.
C26_ChatExecutesLikeToolCall ==
    \A r \in Requests :
        r[1] \in Vocabulary =>
            LET c == chat_execute_tool(BRIDGE, SETTINGS, r[1], r[2])
                t == Out(r[1], r[2])
            IN  /\ c.response.raised = t.response.raised
                /\ c.response.ok = t.response.ok
                /\ c.response.error = t.response.error
                /\ c.BRIDGE = t.BRIDGE
                /\ c.SETTINGS.objects = t.SETTINGS.objects
                /\ c.saved = t.saved

\* C27 (as claimed): from the same state the naive /chat command move
\* OBJECT to ZONE and the move_object request the command-line client's
\* naive parser sends for the same text leave the same bridge state, and
\* when the move succeeds both have persisted the zone's center pose as the
\* object's pose.
C27_NaiveChatMoveLikeMoveObject ==
    \A o \in NaiveObjects, t \in NaiveTargets :
        LET c == chat_naive_move(BRIDGE, SETTINGS, o, t)
            d == naive_parse_and_call_move(BRIDGE, SETTINGS, o, t)
            a == [NoArgs EXCEPT !.object_id = Some(o), !.target = Some(t)]
        IN  /\ c.BRIDGE = d.BRIDGE
            /\ c.response.ok = d.response.ok
            /\ d.response.ok =>
                  /\ Persisted(d, o, SETTINGS.zones.val[Get(resolve_zone_key(SETTINGS, t))])
                  /\ Persisted(c, o, SETTINGS.zones.val[Get(resolve_zone_key(SETTINGS, t))])
                  /\ c.saved

====
